---- MODULE Spec2Model ----
(***************************************************************************)
(* A model of the pileup core of cellsnp-lite: src/src/mplp.h (per-sample  *)
(* pileup csp_plp_t, multi-sample aggregator csp_mplp_t, the genotype      *)
(* likelihood functions and the VCF / sparse-matrix formatters) and        *)
(* src/src/snp.c (the SNP list loader).                                    *)
(*                                                                         *)
(* C arrays keep their 0-based indices: they are functions on 0..n-1.      *)
(* A double is a fixed-point integer in units of 1/SCALE; the three        *)
(* non-finite doubles are the values NINF, PINF and NAN.                   *)
(***************************************************************************)
EXTENDS Integers, Sequences, FiniteSets, TLC

(***************************************************************************)
(* Bounds of the model.                                                    *)
(***************************************************************************)
MaxN == 2
MaxSgCalls == 2
MaxReads == 2
MaxE2EReads == 10
MaxRecs == 2
MaxSites == 1

(***************************************************************************)
(* Doubles.                                                                *)
(***************************************************************************)
SCALE == 10000
NINF == -2000000001
PINF == 2000000001
NAN == 2000000002
\* ln(10) and ln(2), ln(2/3), ln(1/3), ln(1/4) in units of 1/SCALE
Ln10 == 23026
Ln2 == 6931
Ln2_3 == -4055
Ln1_3 == -10986
Ln1_4 == -13863

IsFinite(x) == x # NINF /\ x # PINF /\ x # NAN

\* IEEE addition
FAdd(a, b) ==
    IF a = NAN \/ b = NAN THEN NAN
    ELSE IF (a = NINF /\ b = PINF) \/ (a = PINF /\ b = NINF) THEN NAN
    ELSE IF a = NINF \/ b = NINF THEN NINF
    ELSE IF a = PINF \/ b = PINF THEN PINF
    ELSE a + b

\* IEEE a > b: false as soon as one side is a NaN
FGt(a, b) ==
    IF a = NAN \/ b = NAN THEN FALSE
    ELSE IF a = NINF \/ b = PINF THEN FALSE
    ELSE IF a = PINF \/ b = NINF THEN TRUE
    ELSE a > b

FGe(a, b) == FGt(a, b) \/ (a # NAN /\ a = b)

\* c * n for a finite negative constant c (a logarithm) and a count n
FMulCount(c, n) == c * n

\* division rounding to the nearest integer (b > 0)
RoundDiv(a, b) == IF a >= 0 THEN (2 * a + b) \div (2 * b) ELSE -((2 * (-a) + b) \div (2 * b))

\* 10^(-b/10) for b in 0..9, in units of 1/SCALE
Pow10Frac == <<10000, 7943, 6310, 5012, 3981, 3162, 2512, 1995, 1585, 1259>>

RECURSIVE Pow10(_)
Pow10(a) == IF a = 0 THEN 1 ELSE IF a >= 9 THEN 1000000000 ELSE 10 * Pow10(a - 1)

\* pow(0.1, bq / 10) for an integral bq >= 0
PowTenth(bq) == RoundDiv(Pow10Frac[(bq % 10) + 1], Pow10(bq \div 10))

\* the series 2 * atanh(z) = 2 (z + z^3/3 + z^5/5 + z^7/7 + z^9/9), |z| <= 1/3
Atanh2(z) ==
    LET z2 == RoundDiv(z * z, SCALE)
        z3 == RoundDiv(z * z2, SCALE)
        z5 == RoundDiv(z3 * z2, SCALE)
        z7 == RoundDiv(z5 * z2, SCALE)
        z9 == RoundDiv(z7 * z2, SCALE)
    IN  RoundDiv(2 * (105 * 3 * z + 105 * z3 + 63 * z5 + 45 * z7 + 35 * z9), 315)

RECURSIVE LnPos(_)
\* log(x) for x > 0: doubled until x >= 1/2, then the series around 1
LnPos(x) ==
    IF 2 * x < SCALE THEN LnPos(2 * x) - Ln2
    ELSE Atanh2(RoundDiv((x - SCALE) * SCALE, x + SCALE))

\* log(x) of math.h: -inf at 0, NaN below 0
Log(x) == IF x = 0 THEN NINF ELSE IF x < 0 THEN NAN ELSE LnPos(x)

min2(a, b) == IF a < b THEN a ELSE b
max2(a, b) == IF a > b THEN a ELSE b

(***************************************************************************)
(* Genotype likelihood model.                                              *)
(***************************************************************************)
\* the clamped quality bq of get_qual_vector
\* a clamp that forgets the cap
ClampQual_nocap(qual, cap_bq, min_bq) == max2(qual, min_bq)

ClampQual(qual, cap_bq, min_bq) == max2(min2(cap_bq, qual), min_bq)

\* the four arguments of log in get_qual_vector: 1-p, 0.75-2p/3, 0.5-p/3, p
QualProbs(bq) ==
    LET p == PowTenth(bq)
    IN  [j \in 0..3 |->
            CASE j = 0 -> SCALE - p
              [] j = 1 -> RoundDiv(3 * ((3 * SCALE) \div 4) - 2 * p, 3)
              [] j = 2 -> RoundDiv(3 * (SCALE \div 2) - p, 3)
              [] j = 3 -> p]

\* log(p) = log(pow(0.1, bq/10)) is -bq * ln(10) / 10; the other entries are
\* the logarithm of the fixed-point probability
get_qual_vector(qual, cap_bq, min_bq) ==
    LET bq == ClampQual(qual, cap_bq, min_bq)
        pr == QualProbs(bq)
    IN  [j \in 0..3 |-> IF j = 3 THEN -RoundDiv(bq * Ln10, 10) ELSE Log(pr[j])]

\* sum of f[o] over the indices o listed in the sequence idx, added in order
RECURSIVE SumOver(_, _, _)
SumOver(f, idx, acc) ==
    IF idx = <<>> THEN acc ELSE SumOver(f, Tail(idx), FAdd(acc, f[Head(idx)]))

\* a partition of the bases that leaves the alt base among the others
OtherIdx_noalt(ref_idx, alt_idx) ==
    SelectSeq(<<0, 1, 2, 3, 4>>, LAMBDA i : i # ref_idx)

\* other_idx[0..noth-1] of qual_matrix_to_geno: the bases that are neither
\* ref nor alt, in increasing order
OtherIdx(ref_idx, alt_idx) ==
    SelectSeq(<<0, 1, 2, 3, 4>>, LAMBDA i : i # ref_idx /\ i # alt_idx)

\* a qual_matrix_to_geno whose homozygous-ref likelihood leaves out the
\* error term alt_qual[3] of the alt reads
qual_matrix_to_geno_noalterr(qm, bc, ref_idx, alt_idx, db, gl0) ==
    LET other_idx == OtherIdx(ref_idx, alt_idx)
        ref_read == bc[ref_idx]
        alt_read == bc[alt_idx]
        ref_qual == qm[ref_idx]
        alt_qual == qm[alt_idx]
        oth_sum  == SumOver([o \in 0..4 |-> qm[o][3]], other_idx, 0)
        tmp_qual == SumOver(bc, other_idx, 0)
        oth_qual == FAdd(oth_sum, FMulCount(Ln2_3, tmp_qual))
        g0 == FAdd(FAdd(oth_qual, ref_qual[0]), FMulCount(Ln1_3, alt_read))
        g1 == FAdd(FAdd(oth_qual, ref_qual[2]), alt_qual[2])
        g2 == FAdd(FAdd(FAdd(oth_qual, ref_qual[3]), alt_qual[0]), FMulCount(Ln1_3, ref_read))
        g3 == FAdd(FAdd(oth_qual, ref_qual[1]), FMulCount(Ln1_4, alt_read))
        g4 == FAdd(FAdd(oth_qual, alt_qual[1]), FMulCount(Ln1_4, ref_read))
    IN  [gl |-> [i \in 0..4 |->
                    CASE i = 0 -> g0
                      [] i = 1 -> g1
                      [] i = 2 -> g2
                      [] i = 3 -> IF db # 0 THEN g3 ELSE gl0[3]
                      [] i = 4 -> IF db # 0 THEN g4 ELSE gl0[4]],
         n  |-> IF db # 0 THEN 5 ELSE 3]

\* the result is [gl |-> the five doubles, n |-> *n]; gl0 is gl on entry
qual_matrix_to_geno(qm, bc, ref_idx, alt_idx, db, gl0) ==
    LET other_idx == OtherIdx(ref_idx, alt_idx)
        ref_read == bc[ref_idx]
        alt_read == bc[alt_idx]
        ref_qual == qm[ref_idx]
        alt_qual == qm[alt_idx]
        oth_sum  == SumOver([o \in 0..4 |-> qm[o][3]], other_idx, 0)
        tmp_qual == SumOver(bc, other_idx, 0)
        oth_qual == FAdd(oth_sum, FMulCount(Ln2_3, tmp_qual))
        g0 == FAdd(FAdd(FAdd(oth_qual, ref_qual[0]), alt_qual[3]), FMulCount(Ln1_3, alt_read))
        g1 == FAdd(FAdd(oth_qual, ref_qual[2]), alt_qual[2])
        g2 == FAdd(FAdd(FAdd(oth_qual, ref_qual[3]), alt_qual[0]), FMulCount(Ln1_3, ref_read))
        g3 == FAdd(FAdd(oth_qual, ref_qual[1]), FMulCount(Ln1_4, alt_read))
        g4 == FAdd(FAdd(oth_qual, alt_qual[1]), FMulCount(Ln1_4, ref_read))
    IN  [gl |-> [i \in 0..4 |->
                    CASE i = 0 -> g0
                      [] i = 1 -> g1
                      [] i = 2 -> g2
                      [] i = 3 -> IF db # 0 THEN g3 ELSE gl0[3]
                      [] i = 4 -> IF db # 0 THEN g4 ELSE gl0[4]],
         n  |-> IF db # 0 THEN 5 ELSE 3]

\* an iteration that lets a later base of equal count take the place
InferStep_ge(bc, i, st) ==
    IF bc[i] >= st.m1 THEN [m1 |-> bc[i], k1 |-> i, m2 |-> st.m1, k2 |-> st.k1]
    ELSE IF bc[i] >= st.m2 THEN [st EXCEPT !.m2 = bc[i], !.k2 = i]
    ELSE st

\* one iteration of the loop of csp_infer_allele over i = 2..4
InferStep(bc, i, st) ==
    IF bc[i] > st.m1 THEN [m1 |-> bc[i], k1 |-> i, m2 |-> st.m1, k2 |-> st.k1]
    ELSE IF bc[i] > st.m2 THEN [st EXCEPT !.m2 = bc[i], !.k2 = i]
    ELSE st

\* <<*ref_idx, *alt_idx>>
csp_infer_allele(bc) ==
    LET st0 == IF bc[0] < bc[1] THEN [m1 |-> bc[1], m2 |-> bc[0], k1 |-> 1, k2 |-> 0]
               ELSE [m1 |-> bc[0], m2 |-> bc[1], k1 |-> 0, k2 |-> 1]
        st  == InferStep(bc, 4, InferStep(bc, 3, InferStep(bc, 2, st0)))
    IN  <<st.k1, st.k2>>

\* get_idx_of_max(cu_d, a, n): index of the first maximum of a[0..n-1]
RECURSIVE IdxOfMaxFrom(_, _, _, _)
IdxOfMaxFrom(a, n, i, k) ==
    IF i >= n THEN k
    ELSE IF FGt(a[i], a[k]) THEN IdxOfMaxFrom(a, n, i + 1, i)
    ELSE IdxOfMaxFrom(a, n, i + 1, k)

get_idx_of_max(a, n) == IdxOfMaxFrom(a, n, 1, 0)

(***************************************************************************)
(* Text output.                                                            *)
(***************************************************************************)
\* printf "%ld" / "%d"
FmtInt(n) == ToString(n)

\* printf "%.0f" of the double x
FmtF0(x) ==
    CASE x = NAN  -> "nan"
      [] x = PINF -> "inf"
      [] x = NINF -> "-inf"
      [] OTHER    -> ToString(RoundDiv(x, SCALE))

\* gl[i] * tmp with tmp = -10 / log(10)
ToPhred(g) ==
    CASE g = NAN  -> NAN
      [] g = NINF -> PINF
      [] g = PINF -> NINF
      [] OTHER    -> RoundDiv((-g) * 10 * 100, Ln10) * (SCALE \div 100)

\* join_arr_to_str(a, n, c, fmt, s): the n formatted elements a[0..n-1]
\* separated by c
RECURSIVE JoinFrom(_, _, _, _, _)
JoinFrom(a, n, c, fmt, i) ==
    IF i >= n THEN ""
    ELSE (IF i > 0 THEN c ELSE "")
         \o (IF fmt = "%.0f" THEN FmtF0(a[i]) ELSE FmtInt(a[i]))
         \o JoinFrom(a, n, c, fmt, i + 1)

join_arr_to_str(a, n, c, fmt) == JoinFrom(a, n, c, fmt, 0)

(***************************************************************************)
(* Pointers: NULL is the empty sequence, a pointer to x is <<x>>.           *)
(***************************************************************************)
NULL == <<>>
Ptr(x) == <<x>>
Deref(p) == p[1]

(***************************************************************************)
(* The string-keyed hash map of khash.h as instantiated by                 *)
(* KHASH_MAP_INIT_STR(sg, ...) in mplp.h: open addressing over n_buckets   *)
(* slots (a power of two), an iterator is a slot number and kh_end is      *)
(* n_buckets.  No key is ever deleted from the sample-group map.           *)
(***************************************************************************)
\* the sample-group names of the model and the NULL entry of a name array
Names == {"a", "b", "e"}
NULLNAME == "<NULL>"
NoKey == ""

\* kh_str_hash_func of a one-character name: its character code
KhHash(key) == CASE key = "a" -> 97 [] key = "b" -> 98 [] key = "e" -> 101

\* kh_init(sg)
csp_map_sg_init == [nb |-> 0, keys |-> [i \in {} |-> NoKey], vals |-> [i \in {} |-> NULL]]

KhOccupied(h) == Cardinality({i \in 0..h.nb - 1 : h.keys[i] # NoKey})

\* upper_bound = (khint_t)(n_buckets * 0.77 + 0.5)
KhUpper(nb) == (nb * 77 + 50) \div 100

\* the probe sequence i, i+1, i+1+2, ... (mod n_buckets) from slot i: the
\* first slot that is empty or holds key, or n_buckets when it comes back
\* to the slot it started from
RECURSIVE KhProbe(_, _, _, _, _)
KhProbe(h, key, i, step, last) ==
    IF h.keys[i] = NoKey \/ h.keys[i] = key THEN i
    ELSE LET j == (i + step + 1) % h.nb
         IN  IF j = last THEN h.nb ELSE KhProbe(h, key, j, step + 1, last)

KhSlot(h, key) == KhProbe(h, key, KhHash(key) % h.nb, 0, KhHash(key) % h.nb)

\* csp_map_sg_get(h, key): the slot of key, or kh_end(h)
csp_map_sg_get(h, key) ==
    IF h.nb = 0 THEN 0
    ELSE LET i == KhSlot(h, key)
         IN  IF i < h.nb /\ h.keys[i] = key THEN i ELSE h.nb

\* kh_resize to twice the buckets (4 at first): the entries are put again
\* slot by slot
RECURSIVE KhRehash(_, _, _)
KhRehash(old, j, new) ==
    IF j >= old.nb THEN new
    ELSE IF old.keys[j] = NoKey THEN KhRehash(old, j + 1, new)
    ELSE LET x == KhSlot(new, old.keys[j])
         IN  KhRehash(old, j + 1,
                      [new EXCEPT !.keys[x] = old.keys[j], !.vals[x] = old.vals[j]])

KhResize(h) ==
    LET nb2 == IF h.nb = 0 THEN 4 ELSE 2 * h.nb
    IN  KhRehash(h, 0, [nb |-> nb2, keys |-> [i \in 0..nb2 - 1 |-> NoKey],
                        vals |-> [i \in 0..nb2 - 1 |-> NULL]])

\* csp_map_sg_put(h, key, &r): [h |-> the map afterwards, k |-> the slot,
\* r |-> 1 when the key was absent and 0 when it was present]
csp_map_sg_put(h, key) ==
    LET h1 == IF KhOccupied(h) >= KhUpper(h.nb) THEN KhResize(h) ELSE h
        x  == KhSlot(h1, key)
    IN  IF h1.keys[x] = NoKey
        THEN [h |-> [h1 EXCEPT !.keys[x] = key], k |-> x, r |-> 1]
        ELSE [h |-> h1, k |-> x, r |-> 0]

\* the keys held by the map
KhKeys(h) == {h.keys[i] : i \in 0..h.nb - 1} \ {NoKey}

(***************************************************************************)
(* UMI groups: the strings, the lists csp_list_uu_t and the per-sample map *)
(* csp_map_ug_t from a UMI string to its list.                             *)
(***************************************************************************)
\* a release handed to free(): of the string id (t = "str") or of the
\* backing array of the list that is element id of the list pool
\* (t = "arr"), made by a pool callback (by = "pool") or by a UMI map
Freed(t, id, by) == <<[t |-> t, id |-> id, by |-> by]>>

\* csp_pool_str_reset(s) and csp_pool_str_free(s): free(*(s)) on the cell s
\* of the string pool, whose content e is a string or 0 (NULL); the cell is
\* left as it is
csp_pool_str_reset(e) == IF e # 0 THEN Freed("str", e, "pool") ELSE <<>>
csp_pool_str_free(e) == IF e # 0 THEN Freed("str", e, "pool") ELSE <<>>

\* a csp_list_uu_t is [n, m, a]: n entries in use, m cells allocated (m = 0:
\* a is NULL), a the entries in use
\* kv_init
csp_list_uu_init == [n |-> 0, m |-> 0, a |-> <<>>]

\* kv_push
csp_list_uu_push(v, x) ==
    [n |-> v.n + 1,
     m |-> IF v.n = v.m THEN (IF v.m = 0 THEN 2 ELSE 2 * v.m) ELSE v.m,
     a |-> Append(v.a, x)]


\* csp_list_uu_reset(v): (v)->n = 0; id is the place of v in the list pool
csp_list_uu_reset(v, id) == [v |-> [v EXCEPT !.n = 0, !.a = <<>>], rel |-> <<>>]

\* csp_list_uu_destroy(v): kv_destroy(*(v)) is free(v->a), which leaves v->a
\* as it is
csp_list_uu_destroy(v, id, by) == IF v.m > 0 THEN Freed("arr", id, by) ELSE <<>>

\* kh_init(ug); a value is [sid |-> the string the key points to,
\* ul |-> the place of the list in the list pool]
csp_map_ug_init == [nb |-> 0, keys |-> [i \in {} |-> NoKey], vals |-> [i \in {} |-> NULL]]
csp_map_ug_get(h, key) == csp_map_sg_get(h, key)
csp_map_ug_put(h, key) == csp_map_sg_put(h, key)

\* a reset of the UMI map that keeps its keys
csp_map_ug_reset_keep(h) == h

\* csp_map_ug_reset(h): kh_clear empties every bucket and keeps the buckets
csp_map_ug_reset(h) == [h EXCEPT !.keys = [k \in DOMAIN h.keys |-> NoKey]]

\* csp_map_ug_destroy(h): csp_list_uu_destroy on the list of every key; lists
\* is the array of the list pool
RECURSIVE UgDestroyFrom(_, _, _)
UgDestroyFrom(h, lists, k) ==
    IF k >= h.nb THEN <<>>
    ELSE (IF h.keys[k] # NoKey
          THEN csp_list_uu_destroy(lists[h.vals[k].ul], h.vals[k].ul, "map")
          ELSE <<>>)
         \o UgDestroyFrom(h, lists, k + 1)

csp_map_ug_destroy(h, lists) == UgDestroyFrom(h, lists, 0)

(***************************************************************************)
(* The pools sz_pool_t: pu of csp_umi_unit_t, pl of csp_list_uu_t, su of   *)
(* char*.  A pool is [lazy, l, n, is_reset, a]: a[0..n-1] are the elements *)
(* allocated so far, a[0..l-1] those handed out since the last reset.  The *)
(* Object Pool contract leaves open when reset runs the reset callback: at *)
(* once on the elements handed out (lazy = FALSE), or on each element when *)
(* it is handed out again (lazy = TRUE).                                   *)
(***************************************************************************)
sz_pool_init(lazy) == [lazy |-> lazy, l |-> 0, n |-> 0, is_reset |-> FALSE, a |-> <<>>]

\* calloc of an element
PoolZero(kind) ==
    CASE kind = "ps" -> 0
      [] kind = "ul" -> csp_list_uu_init
      [] kind = "uu" -> [base |-> 0, qual |-> 0]

\* the reset callback of the pool on element e at place id:
\* csp_pool_str_reset, csp_list_uu_reset, csp_umi_unit_reset (empty)
PoolResetElem(kind, e, id) ==
    CASE kind = "ps" -> [v |-> e, rel |-> csp_pool_str_reset(e)]
      [] kind = "ul" -> csp_list_uu_reset(e, id)
      [] kind = "uu" -> [v |-> e, rel |-> <<>>]

\* the release of a sub-resource the destroy callback makes:
\* csp_pool_str_free, csp_list_uu_destroy
PoolFreeElem(kind, e, id) ==
    CASE kind = "ps" -> csp_pool_str_free(e)
      [] kind = "ul" -> csp_list_uu_destroy(e, id, "pool")
      [] kind = "uu" -> <<>>

\* acquire: [p |-> the pool, i |-> the place of the element, rel |-> the
\* releases made]
sz_pool_get(kind, p) ==
    IF p.l < p.n
    THEN LET r == PoolResetElem(kind, p.a[p.l], p.l)
         IN  IF p.lazy /\ p.is_reset
             THEN [p |-> [p EXCEPT !.l = @ + 1, !.a[p.l] = r.v], i |-> p.l, rel |-> r.rel]
             ELSE [p |-> [p EXCEPT !.l = @ + 1], i |-> p.l, rel |-> <<>>]
    ELSE [p |-> [p EXCEPT !.l = @ + 1, !.n = @ + 1,
                          !.a = [j \in 0..p.n |-> IF j < p.n THEN p.a[j] ELSE PoolZero(kind)]],
          i |-> p.n, rel |-> <<>>]

RECURSIVE PoolResetRel(_, _, _)
PoolResetRel(kind, p, j) ==
    IF j >= p.l THEN <<>>
    ELSE PoolResetElem(kind, p.a[j], j).rel \o PoolResetRel(kind, p, j + 1)

\* reset: every element is available again, none is deallocated
sz_pool_reset(kind, p) ==
    IF p.lazy
    THEN [p |-> [p EXCEPT !.l = 0, !.is_reset = TRUE], rel |-> <<>>]
    ELSE [p |-> [p EXCEPT !.l = 0,
                          !.a = [j \in DOMAIN p.a |->
                                    IF j < p.l THEN PoolResetElem(kind, p.a[j], j).v ELSE p.a[j]]],
          rel |-> PoolResetRel(kind, p, 0)]

RECURSIVE PoolFreeRel(_, _, _)
PoolFreeRel(kind, p, j) ==
    IF j >= p.n THEN <<>>
    ELSE PoolFreeElem(kind, p.a[j], j) \o PoolFreeRel(kind, p, j + 1)

\* destroy: the releases made for the elements allocated so far
sz_pool_destroy(kind, p) == PoolFreeRel(kind, p, 0)

(***************************************************************************)
(* Per-sample pileup csp_plp_t.                                            *)
(***************************************************************************)
\* calloc(1, sizeof(csp_plp_t))
csp_plp_init ==
    [bc   |-> [i \in 0..4 |-> 0],
     tc   |-> 0, ad |-> 0, dp |-> 0, oth |-> 0,
     qu   |-> [i \in 0..4 |-> <<>>],
     qmat |-> [i \in 0..4 |-> [j \in 0..3 |-> 0]],
     gl   |-> [i \in 0..4 |-> 0],
     ngl  |-> 0,
     hug  |-> NULL]

\* a reset that clears the likelihoods as well
csp_plp_reset_zerogl(p) ==
    [p EXCEPT !.bc = [i \in 0..4 |-> 0],
              !.tc = 0, !.ad = 0, !.dp = 0, !.oth = 0,
              !.qu = [i \in 0..4 |-> <<>>],
              !.qmat = [i \in 0..4 |-> [j \in 0..3 |-> 0]],
              !.gl = [i \in 0..4 |-> 0],
              !.ngl = 0,
              !.hug = IF @ = NULL THEN NULL ELSE Ptr(csp_map_ug_reset(Deref(@)))]

\* csp_plp_reset(p)
csp_plp_reset(p) ==
    [p EXCEPT !.bc = [i \in 0..4 |-> 0],
              !.tc = 0, !.ad = 0, !.dp = 0, !.oth = 0,
              !.qu = [i \in 0..4 |-> <<>>],
              !.qmat = [i \in 0..4 |-> [j \in 0..3 |-> 0]],
              !.ngl = 0,
              !.hug = IF @ = NULL THEN NULL ELSE Ptr(csp_map_ug_reset(Deref(@)))]

\* genotype strings with the heterozygous and the homozygous-alt swapped
GtStr_swapped(m) == CASE m = 0 -> "0/0" [] m = 1 -> "1/1" [] m = 2 -> "1/0"

\* the genotype strings gt[] of csp_plp_str_vcf
GtStr(m) == CASE m = 0 -> "0/0" [] m = 1 -> "1/0" [] m = 2 -> "1/1"

MissingMarker == ".:.:.:.:.:."

\* a csp_plp_str_vcf that formats a sample without reads like any other
csp_plp_str_vcf_nomarker(p) ==
    LET m  == get_idx_of_max(p.gl, 3)
        gl == [i \in 0..4 |-> ToPhred(p.gl[i])]
    IN  [s |-> GtStr(m)
               \o ":" \o FmtInt(p.ad) \o ":" \o FmtInt(p.dp) \o ":" \o FmtInt(p.oth) \o ":"
               \o join_arr_to_str(gl, p.ngl, ",", "%.0f")
               \o ":"
               \o join_arr_to_str(p.bc, 5, ",", "%ld"),
         r |-> 0]

\* csp_plp_str_vcf(p, s): [s |-> the text appended to s, r |-> the return value]
csp_plp_str_vcf(p) ==
    IF p.tc <= 0 THEN [s |-> MissingMarker, r |-> 0]
    ELSE LET m  == get_idx_of_max(p.gl, 3)
             gl == [i \in 0..4 |-> ToPhred(p.gl[i])]
         IN  [s |-> GtStr(m)
                    \o ":" \o FmtInt(p.ad) \o ":" \o FmtInt(p.dp) \o ":" \o FmtInt(p.oth) \o ":"
                    \o join_arr_to_str(gl, p.ngl, ",", "%.0f")
                    \o ":"
                    \o join_arr_to_str(p.bc, 5, ",", "%ld"),
              r |-> 0]

\* csp_plp_to_vcf(p, s): the same field written through a jfile_t
csp_plp_to_vcf(p) ==
    IF p.tc <= 0 THEN [s |-> MissingMarker, r |-> 0]
    ELSE LET m  == get_idx_of_max(p.gl, 3)
             gl == [i \in 0..4 |-> ToPhred(p.gl[i])]
         IN  [s |-> GtStr(m)
                    \o ":" \o FmtInt(p.ad) \o ":" \o FmtInt(p.dp) \o ":" \o FmtInt(p.oth) \o ":"
                    \o join_arr_to_str(gl, p.ngl, ",", "%.0f")
                    \o ":"
                    \o join_arr_to_str(p.bc, 5, ",", "%ld"),
              r |-> 0]

(***************************************************************************)
(* Multi-sample aggregator csp_mplp_t.                                     *)
(***************************************************************************)
\* the content of a cell of hsg_iter that malloc returned and nothing wrote
UNINIT == -1

\* a name array char **s of n entries: a function on 0..n-1
NameArrays(names, maxn) == UNION {[0..n - 1 -> names \cup {NULLNAME}] : n \in 0..maxn}
ArrLen(s) == Cardinality(DOMAIN s)

\* hsg_iter[i] = k; a store past the cells held so far lands behind the block
IterStore(a, i, k) ==
    LET d == max2(ArrLen(a), i + 1)
    IN  [j \in 0..d - 1 |-> IF j = i THEN k ELSE IF j \in DOMAIN a THEN a[j] ELSE UNINIT]

\* the first loop of csp_mplp_set_sg from entry i on: st is "ok" at the end
\* of the array, "null" at a NULL name, "dup" when kh_put reports r <= 0
RECURSIVE SgPutLoop(_, _, _)
SgPutLoop(h, s, i) ==
    IF i >= ArrLen(s) THEN [h |-> h, st |-> "ok"]
    ELSE IF s[i] = NULLNAME THEN [h |-> h, st |-> "null"]
    ELSE LET pr == csp_map_sg_put(h, s[i])
         IN  IF pr.r <= 0 THEN [h |-> pr.h, st |-> "dup"]
             ELSE SgPutLoop([pr.h EXCEPT !.vals[pr.k] = NULL], s, i + 1)

\* the second loop of csp_mplp_set_sg from entry i on
RECURSIVE SgGetLoop(_, _, _, _)
SgGetLoop(h, s, i, it) ==
    IF i >= ArrLen(s) THEN [it |-> it, st |-> "ok"]
    ELSE LET k == csp_map_sg_get(h, s[i])
         IN  IF k = h.nb THEN [it |-> it, st |-> "miss"]
             ELSE SgGetLoop(h, s, i + 1, [it EXCEPT !.a = IterStore(it.a, i, k)])

\* csp_mplp_set_sg(p, s, n) with s NULL or a pointer to an array of n names,
\* on the aggregator fields m = [hsg, hsg_iter, nsg].  The result gives the
\* fields afterwards, the return value, whether p was destroyed and whether
\* a cell past the allocated hsg_iter was written.
csp_mplp_set_sg(m, s) ==
    IF s = NULL \/ ArrLen(Deref(s)) = 0
    THEN [hsg |-> m.hsg, hsg_iter |-> m.hsg_iter, nsg |-> m.nsg, ret |-> -1,
          destroyed |-> FALSE, oob |-> FALSE]
    ELSE LET names == Deref(s)
             n   == ArrLen(names)
             h0  == IF m.hsg = NULL THEN csp_map_sg_init ELSE Deref(m.hsg)
             it0 == IF m.hsg_iter = NULL
                    THEN [cap |-> n, a |-> [i \in 0..n - 1 |-> UNINIT]]
                    ELSE Deref(m.hsg_iter)
             pl  == SgPutLoop(h0, names, 0)
             gl  == SgGetLoop(pl.h, names, 0, it0)
         IN  IF pl.st = "dup"
             THEN [hsg |-> NULL, hsg_iter |-> NULL, nsg |-> 0, ret |-> -1,
                   destroyed |-> TRUE, oob |-> FALSE]
             ELSE IF pl.st = "null"
             THEN [hsg |-> Ptr(pl.h), hsg_iter |-> Ptr(it0), nsg |-> m.nsg, ret |-> -1,
                   destroyed |-> FALSE, oob |-> FALSE]
             ELSE IF gl.st = "miss"
             THEN [hsg |-> Ptr(pl.h), hsg_iter |-> Ptr(gl.it), nsg |-> m.nsg, ret |-> -1,
                   destroyed |-> FALSE, oob |-> ArrLen(gl.it.a) > it0.cap]
             ELSE [hsg |-> Ptr(pl.h), hsg_iter |-> Ptr(gl.it), nsg |-> n, ret |-> 0,
                   destroyed |-> FALSE, oob |-> n > it0.cap]

\* the csp_plp_t of the sample that hsg_iter[i] designates
SgPlp(h, it, i) == Deref(h.vals[it.a[i]])

\* csp_mplp_str_vcf(mplp, s): a tab and the field of each of the nsg samples
RECURSIVE MplpStrVcfFrom(_, _, _, _)
MplpStrVcfFrom(h, it, n, i) ==
    IF i >= n THEN [s |-> "", r |-> 0]
    ELSE LET f == csp_plp_str_vcf(SgPlp(h, it, i))
         IN  IF f.r < 0 THEN [s |-> "\t" \o f.s, r |-> -1]
             ELSE LET rest == MplpStrVcfFrom(h, it, n, i + 1)
                  IN  [s |-> "\t" \o f.s \o rest.s, r |-> rest.r]

csp_mplp_str_vcf(h, it, n) == MplpStrVcfFrom(h, it, n, 0)

\* csp_mplp_to_vcf(mplp, s)
RECURSIVE MplpToVcfFrom(_, _, _, _)
MplpToVcfFrom(h, it, n, i) ==
    IF i >= n THEN [s |-> "", r |-> 0]
    ELSE LET f == csp_plp_to_vcf(SgPlp(h, it, i))
         IN  IF f.r < 0 THEN [s |-> "\t" \o f.s, r |-> -1]
             ELSE LET rest == MplpToVcfFrom(h, it, n, i + 1)
                  IN  [s |-> "\t" \o f.s \o rest.s, r |-> rest.r]

csp_mplp_to_vcf(h, it, n) == MplpToVcfFrom(h, it, n, 0)

\* what a formatter reads through hsg_iter[i]: the ad, dp, oth of the sample
\* the cell designates, or the arbitrary content g when the cell lies past
\* the cells ever written
CountsAt(h, it, i, g) ==
    IF i \in DOMAIN it.a /\ it.a[i] # UNINIT
    THEN LET p == SgPlp(h, it, i) IN [ad |-> p.ad, dp |-> p.dp, oth |-> p.oth]
    ELSE g

\* "%ld\t%d\t%ld\n" and "%d\t%ld\n"
MtxLine3(idx, i, v) == FmtInt(idx) \o "\t" \o FmtInt(i) \o "\t" \o FmtInt(v) \o "\n"
MtxLine2(i, v) == FmtInt(i) \o "\t" \o FmtInt(v) \o "\n"
\* a line that carries the site index in the temporary layout too
MtxLine_withidx(is_tmp, idx, i, v) == MtxLine3(idx, i, v)

MtxLine(is_tmp, idx, i, v) == IF is_tmp THEN MtxLine2(i, v) ELSE MtxLine3(idx, i, v)

\* the lines one output receives in the loop i = from..n: a line for each i
\* whose value cnt[i] is not 0
RECURSIVE MtxLines(_, _, _, _, _)
MtxLines(cnt, is_tmp, idx, i, n) ==
    IF i > n THEN ""
    ELSE (IF cnt[i] # 0 THEN MtxLine(is_tmp, idx, i, cnt[i]) ELSE "")
         \o MtxLines(cnt, is_tmp, idx, i + 1, n)

\* csp_mplp_str_mtx(mplp, ks_ad, ks_dp, ks_oth, idx)
csp_mplp_str_mtx(h, it, n, idx, g) ==
    LET c == [i \in 1..n |-> CountsAt(h, it, i, g)]
    IN  [ad  |-> MtxLines([i \in 1..n |-> c[i].ad], FALSE, idx, 1, n),
         dp  |-> MtxLines([i \in 1..n |-> c[i].dp], FALSE, idx, 1, n),
         oth |-> MtxLines([i \in 1..n |-> c[i].oth], FALSE, idx, 1, n),
         r   |-> 0]

\* csp_mplp_str_mtx_tmp(mplp, ks_ad, ks_dp, ks_oth)
csp_mplp_str_mtx_tmp(h, it, n, g) ==
    LET c == [i \in 1..n |-> CountsAt(h, it, i, g)]
    IN  [ad  |-> MtxLines([i \in 1..n |-> c[i].ad], TRUE, 0, 1, n) \o "\n",
         dp  |-> MtxLines([i \in 1..n |-> c[i].dp], TRUE, 0, 1, n) \o "\n",
         oth |-> MtxLines([i \in 1..n |-> c[i].oth], TRUE, 0, 1, n) \o "\n",
         r   |-> 0]

\* csp_mplp_to_mtx(mplp, fs_ad, fs_dp, fs_oth, idx); tmp is the is_tmp flag
\* of fs_ad, fs_dp, fs_oth
csp_mplp_to_mtx(h, it, n, idx, tmp, g) ==
    LET c == [i \in 1..n |-> CountsAt(h, it, i - 1, g)]
    IN  [ad  |-> MtxLines([i \in 1..n |-> c[i].ad], tmp[1], idx, 1, n)
                 \o (IF tmp[1] THEN "\n" ELSE ""),
         dp  |-> MtxLines([i \in 1..n |-> c[i].dp], tmp[2], idx, 1, n)
                 \o (IF tmp[2] THEN "\n" ELSE ""),
         oth |-> MtxLines([i \in 1..n |-> c[i].oth], tmp[3], idx, 1, n)
                 \o (IF tmp[3] THEN "\n" ELSE ""),
         r   |-> 0]

\* the highest index the loop of a matrix formatter reads hsg_iter at
StrMtxLastRead(n) == n
ToMtxLastRead(n) == n - 1

\* a reset of the map that also drops its keys
csp_map_sg_reset_val_clear(h) ==
    [h EXCEPT !.keys = [k \in DOMAIN h.keys |-> NoKey],
              !.vals = [k \in DOMAIN h.vals |-> NULL]]

\* csp_mplp_reset on the map: csp_map_sg_reset_val resets every csp_plp_t
csp_map_sg_reset_val(h) ==
    [h EXCEPT !.vals = [k \in DOMAIN h.vals |->
        IF h.keys[k] # NoKey /\ h.vals[k] # NULL
        THEN Ptr(csp_plp_reset(Deref(h.vals[k]))) ELSE h.vals[k]]]

(***************************************************************************)
(* csp_mplp_reset and csp_mplp_destroy, statement by statement, on         *)
(* x = [hsg, pu, pl, su, mem]: the map and the pools of the csp_mplp_t and *)
(* the heap.  mem is [nstr, sfree, apool, amap, dangling]: the strings     *)
(* 1..nstr made by strdup so far, how often string i was released          *)
(* (sfree[i]), how often the backing array of the list at place k of the   *)
(* list pool was released by the pool (apool[k + 1]) and by a UMI map      *)
(* (amap[k + 1]), and whether at some moment a key of a UMI map pointed to *)
(* a released string.                                                      *)
(***************************************************************************)
MemZero == [nstr |-> 0, sfree |-> <<>>, apool |-> <<>>, amap |-> <<>>, dangling |-> FALSE]

RECURSIVE Release(_, _)
Release(m, rel) ==
    IF rel = <<>> THEN m
    ELSE LET r == Head(rel)
         IN  Release(CASE r.t = "str" -> [m EXCEPT !.sfree[r.id] = @ + 1]
                       [] r.t = "arr" /\ r.by = "pool" -> [m EXCEPT !.apool[r.id + 1] = @ + 1]
                       [] r.t = "arr" /\ r.by = "map" -> [m EXCEPT !.amap[r.id + 1] = @ + 1],
                     Tail(rel))

\* a block was handed to free() a second time
DoubleFreed(m) ==
    \/ \E i \in 1..Len(m.sfree) : m.sfree[i] > 1
    \/ \E k \in 1..Len(m.apool) : m.apool[k] + m.amap[k] > 1

\* the csp_plp_t held by the sample-group map behind hp
PlpsOf(hp) ==
    IF hp = NULL THEN {}
    ELSE {Deref(Deref(hp).vals[k]) : k \in {j \in 0..Deref(hp).nb - 1 :
                                              Deref(hp).keys[j] # NoKey /\ Deref(hp).vals[j] # NULL}}

\* the strings the keys of the UMI map hug point to
UgKeySids(hug) ==
    IF hug = NULL THEN {}
    ELSE {Deref(hug).vals[k].sid : k \in {j \in 0..Deref(hug).nb - 1 : Deref(hug).keys[j] # NoKey}}

\* a key of a UMI map points to a released string
KeyDangling(x) == \E q \in PlpsOf(x.hsg) : \E i \in UgKeySids(q.hug) : x.mem.sfree[i] > 0

Observe(x) == [x EXCEPT !.mem.dangling = @ \/ KeyDangling(x)]

\* if (p->hsg) { csp_map_sg_reset_val(p->hsg); }
ResetHsg(x) ==
    Observe([x EXCEPT !.hsg = IF @ = NULL THEN NULL ELSE Ptr(csp_map_sg_reset_val(Deref(@)))])

\* if (p->pu) { csp_pool_uu_reset(p->pu); } and the same for pl and su
ResetPu(x) ==
    IF x.pu = NULL THEN x
    ELSE LET r == sz_pool_reset("uu", Deref(x.pu))
         IN  Observe([x EXCEPT !.pu = Ptr(r.p), !.mem = Release(@, r.rel)])
ResetPl(x) ==
    IF x.pl = NULL THEN x
    ELSE LET r == sz_pool_reset("ul", Deref(x.pl))
         IN  Observe([x EXCEPT !.pl = Ptr(r.p), !.mem = Release(@, r.rel)])
ResetSu(x) ==
    IF x.su = NULL THEN x
    ELSE LET r == sz_pool_reset("ps", Deref(x.su))
         IN  Observe([x EXCEPT !.su = Ptr(r.p), !.mem = Release(@, r.rel)])

\* a reset that gives the strings back before the maps are cleared
csp_mplp_reset_sufirst(x) == ResetPl(ResetPu(ResetHsg(ResetSu(x))))

\* csp_mplp_reset(p) on the map and the pools
csp_mplp_reset(x) == ResetSu(ResetPl(ResetPu(ResetHsg(x))))

\* csp_plp_destroy(p) on the UMI map of the csp_plp_t q
csp_plp_destroy(q, lists) ==
    IF q.hug = NULL THEN <<>> ELSE csp_map_ug_destroy(Deref(q.hug), lists)

\* csp_map_sg_destroy(h): csp_plp_destroy on the csp_plp_t of every key
RECURSIVE SgDestroyFrom(_, _, _)
SgDestroyFrom(h, lists, k) ==
    IF k >= h.nb THEN <<>>
    ELSE (IF h.keys[k] # NoKey /\ h.vals[k] # NULL
          THEN csp_plp_destroy(Deref(h.vals[k]), lists)
          ELSE <<>>)
         \o SgDestroyFrom(h, lists, k + 1)

csp_map_sg_destroy(h, lists) == SgDestroyFrom(h, lists, 0)

\* if (p->hsg) { csp_map_sg_destroy(p->hsg); }
DestroyHsg(x) ==
    IF x.hsg = NULL THEN x
    ELSE LET lists == IF x.pl = NULL THEN <<>> ELSE Deref(x.pl).a
         IN  Observe([x EXCEPT !.hsg = NULL,
                               !.mem = Release(@, csp_map_sg_destroy(Deref(x.hsg), lists))])

\* if (p->pu) { csp_pool_uu_destroy(p->pu); } and the same for pl and su
DestroyPu(x) == [x EXCEPT !.pu = NULL]
DestroyPl(x) ==
    IF x.pl = NULL THEN x
    ELSE Observe([x EXCEPT !.pl = NULL, !.mem = Release(@, sz_pool_destroy("ul", Deref(x.pl)))])
DestroySu(x) ==
    IF x.su = NULL THEN x
    ELSE Observe([x EXCEPT !.su = NULL, !.mem = Release(@, sz_pool_destroy("ps", Deref(x.su)))])

\* csp_mplp_destroy(p) on the map and the pools
csp_mplp_destroy(x) == DestroySu(DestroyPl(DestroyPu(DestroyHsg(x))))

\* the site-level fields of csp_mplp_t after calloc / csp_mplp_reset
SiteZero ==
    [bc |-> [i \in 0..4 |-> 0], tc |-> 0, ad |-> 0, dp |-> 0, oth |-> 0,
     nr_ad |-> 0, nr_dp |-> 0, nr_oth |-> 0, qvec |-> [j \in 0..3 |-> 0]]

(***************************************************************************)
(* Accumulation and finalisation of one site (section 4.2 and 4.4 of the   *)
(* design: record_observation, finalize, run).                             *)
(***************************************************************************)
\* record_observation of a read that is neither a ref-skip nor a deletion
\* a recording whose base count depends on the reads recorded before
record_observation_running(p, base, qual) ==
    [p EXCEPT !.bc[base] = p.tc + 1, !.tc = @ + 1, !.qu[base] = Append(@, qual)]

record_observation(p, base, qual) ==
    [p EXCEPT !.bc[base] = @ + 1, !.tc = @ + 1, !.qu[base] = Append(@, qual)]

\* folding one observation: its error vector is added to qmat[base] and the
\* observation is counted in ad, dp or oth
FoldObs(p, base, qual, ref, alt, set) ==
    LET qv == get_qual_vector(qual, set.cap_bq, set.min_bq)
    IN  [p EXCEPT !.qmat[base] = [j \in 0..3 |-> FAdd(@[j], qv[j])],
                  !.ad  = IF base = alt THEN @ + 1 ELSE @,
                  !.dp  = IF base = ref \/ base = alt THEN @ + 1 ELSE @,
                  !.oth = IF base = ref \/ base = alt THEN @ ELSE @ + 1]

RECURSIVE FoldList(_, _, _, _, _, _)
FoldList(p, base, quals, ref, alt, set) ==
    IF quals = <<>> THEN p
    ELSE FoldList(FoldObs(p, base, Head(quals), ref, alt, set), base, Tail(quals), ref, alt, set)

RECURSIVE FoldBases(_, _, _, _, _)
FoldBases(p, base, ref, alt, set) ==
    IF base > 4 THEN p
    ELSE FoldBases(FoldList(p, base, p.qu[base], ref, alt, set), base + 1, ref, alt, set)

\* finalize(ref_idx, alt_idx) of one sample followed by the likelihood model
finalize(p, ref, alt, set) ==
    LET f == FoldBases(p, 0, ref, alt, set)
        g == qual_matrix_to_geno(f.qmat, f.bc, ref, alt, set.db, f.gl)
    IN  [f EXCEPT !.gl = g.gl, !.ngl = g.n]

RECURSIVE SumTo(_, _)
SumTo(f, n) == IF n <= 0 THEN 0 ELSE f[n - 1] + SumTo(f, n - 1)

(***************************************************************************)
(* State.                                                                  *)
(***************************************************************************)
VARIABLES
    alive,      \* the csp_mplp_t is allocated
    nfree,      \* how many times the csp_mplp_t was released
    pc,         \* where the caller is: "config", "accum", "final", "done", "crashed"
    ncalls,     \* calls of csp_mplp_set_sg made so far
    sg_arg,     \* the name array of the latest csp_mplp_set_sg
    hsg,        \* NULL or a pointer to the sample-group map
    hsg_iter,   \* NULL or a pointer to [cap, a]: the malloc'ed size and the cells
    nsg,
    ret,        \* the value the latest call returned
    ref_idx, alt_idx, inf_rid, inf_aid,
    site,       \* bc, tc, ad, dp, oth, nr_ad, nr_dp, nr_oth, qvec
    gs,         \* the settings: cap_bq, min_bq, db (doublet likelihoods)
    nreads,     \* reads recorded so far
    nsite,      \* sites finalized so far: the 1-based index of the current site
    out,        \* what the latest formatter call wrote
    ub,         \* a cell outside an allocated block was read or written
    snp_pl0,    \* get_snplist_from_vcf: the SNP list *pl on entry
    snp_in,     \* the records bcf_read1 returned so far
    snp_pl,     \* the SNP list *pl
    snp_n,      \* n
    snp_ret,    \* *ret
    snp_pc,     \* "read", "done" (end of file), "fail"
    fn_in,      \* the argument of a function under test
    fn_out,     \* NULL or a pointer to its result
    pu, pl, su, \* NULL or a pointer to the pool of units, of lists, of strings
    mem         \* the heap blocks of the UMI strings and lists

umVars == <<pu, pl, su, mem>>
aggVars == <<alive, nfree, pc, ncalls, sg_arg, hsg, hsg_iter, nsg, ret,
             ref_idx, alt_idx, inf_rid, inf_aid, site, gs, nreads, nsite, out, ub, umVars>>
snpVars == <<snp_pl0, snp_in, snp_pl, snp_n, snp_ret, snp_pc>>
fnVars == <<fn_in, fn_out>>
vars == <<aggVars, snpVars, fnVars>>

\* the settings the model runs under: cap and floor of the base quality and
\* the doublet flag
Settings ==
    {[cap_bq |-> 45, min_bq |-> 0, db |-> 0],
     [cap_bq |-> 45, min_bq |-> 5, db |-> 1]}

\* the base qualities of the reads
Quals == {0, 30}

\* the bases of the reads: A, G, T
PushBases == {0, 2, 3}

\* the reads of a site as <<base, quality>>: A and G reads of either
\* quality, T reads of the higher one
PushObs == ({0, 2} \X Quals) \cup ({3} \X {30})

\* the (ref_idx, alt_idx) a site comes with; <<-1, -1>>: to be inferred
SiteAlleles == {<<0, 2>>, <<-1, -1>>}

\* what a read through a wild pointer can find as ad, dp, oth
GarbageCounts == {[ad |-> 0, dp |-> 0, oth |-> 0], [ad |-> 7, dp |-> 9, oth |-> 3]}

\* the is_tmp flags of fs_ad, fs_dp, fs_oth
TmpFlags == {<<FALSE, FALSE, FALSE>>, <<TRUE, FALSE, TRUE>>}

OutNone == [op |-> "", vcf |-> "", ad |-> "", dp |-> "", oth |-> "", idx |-> 0,
            tmp |-> <<FALSE, FALSE, FALSE>>]

AggIdle ==
    /\ alive = FALSE /\ nfree = 0 /\ pc = "idle" /\ ncalls = 0 /\ sg_arg = NULL
    /\ hsg = NULL /\ hsg_iter = NULL /\ nsg = 0 /\ ret = 0
    /\ ref_idx = 0 /\ alt_idx = 0 /\ inf_rid = 0 /\ inf_aid = 0
    /\ site = SiteZero /\ gs = [cap_bq |-> 45, min_bq |-> 0, db |-> 0]
    /\ nreads = 0 /\ nsite = 0 /\ out = OutNone /\ ub = FALSE
    /\ pu = NULL /\ pl = NULL /\ su = NULL /\ mem = MemZero

SnpIdle ==
    /\ snp_pl0 = <<>> /\ snp_in = <<>> /\ snp_pl = <<>> /\ snp_n = 0 /\ snp_ret = 0
    /\ snp_pc = "idle"

FnIdle == fn_in = NULL /\ fn_out = NULL

\* csp_mplp_init: calloc(1, sizeof(csp_mplp_t))
csp_mplp_init(settings) ==
    /\ alive = TRUE /\ nfree = 0 /\ pc = "config" /\ ncalls = 0 /\ sg_arg = NULL
    /\ hsg = NULL /\ hsg_iter = NULL /\ nsg = 0 /\ ret = 0
    /\ ref_idx = 0 /\ alt_idx = 0 /\ inf_rid = 0 /\ inf_aid = 0
    /\ site = SiteZero /\ gs \in settings
    /\ nreads = 0 /\ nsite = 0 /\ out = OutNone /\ ub = FALSE
    /\ pu = NULL /\ pl = NULL /\ su = NULL /\ mem = MemZero

Init == csp_mplp_init(Settings) /\ SnpIdle /\ FnIdle

(***************************************************************************)
(* Operations on the aggregator.                                           *)
(***************************************************************************)
\* csp_mplp_set_sg(p, s, n), called while the aggregator is being configured
\* and no earlier call failed.  A store past the end of hsg_iter either
\* lands in the slack behind the block or brings the process down.
SetSgIn(args, maxcalls) ==
    /\ pc = "config" /\ ret = 0 /\ ncalls < maxcalls
    /\ \E s \in args :
        LET res == csp_mplp_set_sg([hsg |-> hsg, hsg_iter |-> hsg_iter, nsg |-> nsg], s)
        IN  \/ /\ hsg' = res.hsg
               /\ hsg_iter' = res.hsg_iter
               /\ nsg' = res.nsg
               /\ ret' = res.ret
               /\ alive' = IF res.destroyed THEN FALSE ELSE alive
               /\ nfree' = IF res.destroyed THEN nfree + 1 ELSE nfree
               /\ ub' = (ub \/ res.oob)
               /\ ncalls' = ncalls + 1
               /\ sg_arg' = s
               /\ UNCHANGED pc
            \/ /\ res.oob
               /\ pc' = "crashed"
               /\ UNCHANGED <<hsg, hsg_iter, nsg, ret, alive, nfree, ub, ncalls, sg_arg>>
    /\ UNCHANGED <<ref_idx, alt_idx, inf_rid, inf_aid, site, gs, nreads, nsite, out>>
    /\ UNCHANGED <<snpVars, fnVars, umVars>>

\* the arguments s of csp_mplp_set_sg: NULL, or an array of at most maxn entries
SgArgs(names, maxn) == {NULL} \cup {Ptr(a) : a \in NameArrays(names, maxn)}

SetSg == SetSgIn(SgArgs({"a", "e"}, MaxN), MaxSgCalls)

\* the caller gives every sample group of the map its csp_plp_t
Prepare ==
    /\ pc = "config" /\ ret = 0 /\ ncalls >= 1 /\ alive
    /\ hsg' = Ptr([Deref(hsg) EXCEPT !.vals = [k \in DOMAIN Deref(hsg).vals |->
                      IF Deref(hsg).keys[k] # NoKey THEN Ptr(csp_plp_init) ELSE NULL]])
    /\ pc' = "accum"
    /\ UNCHANGED <<alive, nfree, ncalls, sg_arg, hsg_iter, nsg, ret, ref_idx, alt_idx,
                   inf_rid, inf_aid, site, gs, nreads, nsite, out, ub>>
    /\ UNCHANGED <<snpVars, fnVars, umVars>>

\* one read of sample i at the current site; a read in a ref-skip or a
\* deletion leaves the counts alone
PushIn(obs, maxReads) ==
    /\ pc = "accum" /\ nreads < maxReads
    /\ \E i \in 0..nsg - 1, o \in obs, skip \in BOOLEAN :
        LET h == Deref(hsg)
            k == Deref(hsg_iter).a[i]
        IN  /\ hsg' = IF skip THEN hsg
                      ELSE Ptr([h EXCEPT !.vals[k] = Ptr(record_observation(Deref(@), o[1], o[2]))])
            /\ nreads' = IF skip THEN nreads ELSE nreads + 1
    /\ UNCHANGED <<alive, nfree, pc, ncalls, sg_arg, hsg_iter, nsg, ret, ref_idx, alt_idx,
                   inf_rid, inf_aid, site, gs, nsite, out, ub>>
    /\ UNCHANGED <<snpVars, fnVars, umVars>>

Push == PushIn(PushObs, MaxReads)

\* the samples finalized with the effective alleles eff
StatVals(h, it, n, eff, set) ==
    [k \in DOMAIN h.vals |->
        IF \E i \in 0..n - 1 : it.a[i] = k
        THEN Ptr(finalize(Deref(h.vals[k]), eff[1], eff[2], set))
        ELSE h.vals[k]]

\* the quality vector computed last: of the last quality of the last base of
\* the last sample that has a read
RECURSIVE LastQvec(_, _, _, _, _)
LastQvec(h, it, i, set, dflt) ==
    IF i < 0 THEN dflt
    ELSE LET p == SgPlp(h, it, i)
             bs == {b \in 0..4 : p.qu[b] # <<>>}
         IN  IF bs = {} THEN LastQvec(h, it, i - 1, set, dflt)
             ELSE LET b == CHOOSE x \in bs : \A y \in bs : y <= x
                  IN  get_qual_vector(p.qu[b][Len(p.qu[b])], set.cap_bq, set.min_bq)

\* run, once every read of the site is recorded: the site totals, the
\* effective alleles (given, else inferred), every sample finalized
StatIn(alleles) ==
    /\ pc = "accum" /\ nsite < MaxSites
    /\ \E pair \in alleles :
        LET h   == Deref(hsg)
            it  == Deref(hsg_iter)
            sbc == [b \in 0..4 |-> SumTo([i \in 0..nsg - 1 |-> SgPlp(h, it, i).bc[b]], nsg)]
            inferred == pair[1] < 0 \/ pair[2] < 0
            eff == IF inferred THEN csp_infer_allele(sbc) ELSE pair
            vals2 == StatVals(h, it, nsg, eff, gs)
            h2  == [h EXCEPT !.vals = vals2]
        IN  /\ hsg' = Ptr(h2)
            /\ ref_idx' = pair[1] /\ alt_idx' = pair[2]
            /\ inf_rid' = IF inferred THEN eff[1] ELSE -1
            /\ inf_aid' = IF inferred THEN eff[2] ELSE -1
            /\ site' = [bc  |-> sbc,
                        tc  |-> SumTo([i \in 0..nsg - 1 |-> SgPlp(h2, it, i).tc], nsg),
                        ad  |-> SumTo([i \in 0..nsg - 1 |-> SgPlp(h2, it, i).ad], nsg),
                        dp  |-> SumTo([i \in 0..nsg - 1 |-> SgPlp(h2, it, i).dp], nsg),
                        oth |-> SumTo([i \in 0..nsg - 1 |-> SgPlp(h2, it, i).oth], nsg),
                        nr_ad  |-> Cardinality({i \in 0..nsg - 1 : SgPlp(h2, it, i).ad > 0}),
                        nr_dp  |-> Cardinality({i \in 0..nsg - 1 : SgPlp(h2, it, i).dp > 0}),
                        nr_oth |-> Cardinality({i \in 0..nsg - 1 : SgPlp(h2, it, i).oth > 0}),
                        qvec |-> LastQvec(h, it, nsg - 1, gs, site.qvec)]
    /\ pc' = "final"
    /\ nsite' = nsite + 1
    /\ UNCHANGED <<alive, nfree, ncalls, sg_arg, hsg_iter, nsg, ret, gs, nreads, out, ub>>
    /\ UNCHANGED <<snpVars, fnVars, umVars>>

Stat == StatIn(SiteAlleles)

\* the formatters run on a finalized site, whose 1-based index is nsite
AggFrame == <<alive, nfree, ncalls, sg_arg, hsg, hsg_iter, nsg, ref_idx, alt_idx,
              inf_rid, inf_aid, site, gs, nreads, nsite>>

StrVcf ==
    /\ pc = "final"
    /\ LET f == csp_mplp_str_vcf(Deref(hsg), Deref(hsg_iter), nsg)
       IN  /\ out' = [OutNone EXCEPT !.op = "str_vcf", !.vcf = f.s]
           /\ ret' = f.r
    /\ UNCHANGED <<AggFrame, pc, ub>>
    /\ UNCHANGED <<snpVars, fnVars, umVars>>

ToVcf ==
    /\ pc = "final"
    /\ LET f == csp_mplp_to_vcf(Deref(hsg), Deref(hsg_iter), nsg)
       IN  /\ out' = [OutNone EXCEPT !.op = "to_vcf", !.vcf = f.s]
           /\ ret' = f.r
    /\ UNCHANGED <<AggFrame, pc, ub>>
    /\ UNCHANGED <<snpVars, fnVars, umVars>>

\* a formatter whose loop reads hsg_iter up to the cell last: a cell past
\* the allocated ones holds whatever lies behind the block, and a read
\* through it either finds arbitrary counts or brings the process down
MtxStep(op, last, idx, tmp, fmt) ==
    LET it   == Deref(hsg_iter)
        wild == last \notin DOMAIN it.a
    IN  \/ \E g \in (IF wild THEN GarbageCounts ELSE {CHOOSE x \in GarbageCounts : TRUE}) :
              LET f == fmt[g]
              IN  /\ out' = [op |-> op, vcf |-> "", ad |-> f.ad, dp |-> f.dp, oth |-> f.oth,
                             idx |-> idx, tmp |-> tmp]
                  /\ ret' = f.r
                  /\ ub' = (ub \/ last >= it.cap)
                  /\ UNCHANGED pc
        \/ /\ wild
           /\ pc' = "crashed"
           /\ ub' = TRUE
           /\ UNCHANGED <<out, ret>>

StrMtx ==
    /\ pc = "final"
    /\ MtxStep("str_mtx", StrMtxLastRead(nsg), nsite, <<FALSE, FALSE, FALSE>>,
               [g \in GarbageCounts |-> csp_mplp_str_mtx(Deref(hsg), Deref(hsg_iter), nsg, nsite, g)])
    /\ UNCHANGED AggFrame
    /\ UNCHANGED <<snpVars, fnVars, umVars>>

StrMtxTmp ==
    /\ pc = "final"
    /\ MtxStep("str_mtx_tmp", StrMtxLastRead(nsg), 0, <<TRUE, TRUE, TRUE>>,
               [g \in GarbageCounts |-> csp_mplp_str_mtx_tmp(Deref(hsg), Deref(hsg_iter), nsg, g)])
    /\ UNCHANGED AggFrame
    /\ UNCHANGED <<snpVars, fnVars, umVars>>

ToMtx ==
    /\ pc = "final"
    /\ \E tmp \in TmpFlags :
          MtxStep("to_mtx", ToMtxLastRead(nsg), nsite, tmp,
                  [g \in GarbageCounts |-> csp_mplp_to_mtx(Deref(hsg), Deref(hsg_iter), nsg, nsite, tmp, g)])
    /\ UNCHANGED AggFrame
    /\ UNCHANGED <<snpVars, fnVars, umVars>>

\* the map, the pools and the heap
Owned == [hsg |-> hsg, pu |-> pu, pl |-> pl, su |-> su, mem |-> mem]

\* csp_mplp_reset(p): the aggregator is made ready for the next site
Reset ==
    /\ pc \in {"config", "accum", "final"} /\ alive
    /\ site' = SiteZero
    /\ LET x == csp_mplp_reset(Owned)
       IN  hsg' = x.hsg /\ pu' = x.pu /\ pl' = x.pl /\ su' = x.su /\ mem' = x.mem
    /\ pc' = IF pc = "config" THEN "config" ELSE "accum"
    /\ out' = OutNone
    /\ UNCHANGED <<alive, nfree, ncalls, sg_arg, hsg_iter, nsg, ret, ref_idx, alt_idx,
                   inf_rid, inf_aid, gs, nreads, nsite, ub>>
    /\ UNCHANGED <<snpVars, fnVars>>

\* csp_mplp_destroy(p): the map with every csp_plp_t, hsg_iter, the pools
\* and the structure are released; on a structure already released it is a
\* second release of the same block.  A second free() of a block corrupts
\* the heap or brings the process down.
Destroy ==
    /\ pc \in {"config", "accum", "final"}
    /\ alive' = FALSE
    /\ nfree' = nfree + 1
    /\ LET x == csp_mplp_destroy(Owned)
       IN  /\ hsg' = x.hsg /\ pu' = x.pu /\ pl' = x.pl /\ su' = x.su /\ mem' = x.mem
           /\ ub' = (ub \/ ~alive \/ DoubleFreed(x.mem))
           /\ \/ pc' = "done"
              \/ DoubleFreed(x.mem) /\ pc' = "crashed"
    /\ hsg_iter' = NULL /\ nsg' = 0
    /\ UNCHANGED <<ncalls, sg_arg, ret, ref_idx, alt_idx, inf_rid, inf_aid, site, gs,
                   nreads, nsite, out>>
    /\ UNCHANGED <<snpVars, fnVars>>

Next ==
    \/ SetSg
    \/ Prepare
    \/ Push
    \/ Stat
    \/ StrVcf
    \/ ToVcf
    \/ StrMtx
    \/ StrMtxTmp
    \/ ToMtx
    \/ Reset
    \/ Destroy

Spec == Init /\ [][Next]_vars

(***************************************************************************)
(* The aggregator while it is configured: two calls of csp_mplp_set_sg     *)
(* over three names.                                                       *)
(***************************************************************************)
SetSgAll == SetSgIn(SgArgs(Names, MaxN), MaxSgCalls)

NextSg ==
    \/ SetSgAll
    \/ Destroy

SpecSg == Init /\ [][NextSg]_vars

(***************************************************************************)
(* One sample group and up to MaxE2EReads reads of quality 30 at a site    *)
(* with ref A and alt G.                                                   *)
(***************************************************************************)
SetSgOne == SetSgIn({Ptr([i \in 0..0 |-> "a"])}, 1)
PushE2E == PushIn(PushBases \X {30}, MaxE2EReads)
StatE2E == StatIn({<<0, 2>>})

NextE2E ==
    \/ SetSgOne
    \/ Prepare
    \/ PushE2E
    \/ StatE2E
    \/ StrVcf

SpecE2E == Init /\ [][NextE2E]_vars

(***************************************************************************)
(* The aggregator with UMI groups: every csp_plp_t has a UMI map and the   *)
(* csp_mplp_t has its three pools.                                         *)
(***************************************************************************)
MaxUmiReads == 2
UmiTags == {"a", "b"}
UmiObs == {<<0, 30>>, <<2, 30>>}
UmiSettings == {[cap_bq |-> 45, min_bq |-> 0, db |-> 0]}
UmiSgArgs == {Ptr([i \in 0..0 |-> "a"]), Ptr([i \in 0..1 |-> IF i = 0 THEN "a" ELSE "b"])}

InitUmi == csp_mplp_init(UmiSettings) /\ SnpIdle /\ FnIdle

SetSgUmi == SetSgIn(UmiSgArgs, 1)

\* the accumulators with their UMI maps and the three pools are made;
\* variants are the pool variants the build may have
PrepareUmiIn(variants) ==
    /\ pc = "config" /\ ret = 0 /\ ncalls >= 1 /\ alive
    /\ hsg' = Ptr([Deref(hsg) EXCEPT !.vals = [k \in DOMAIN Deref(hsg).vals |->
                      IF Deref(hsg).keys[k] # NoKey
                      THEN Ptr([csp_plp_init EXCEPT !.hug = Ptr(csp_map_ug_init)])
                      ELSE NULL]])
    /\ \E lazy \in variants :
          /\ pu' = Ptr(sz_pool_init(lazy))
          /\ pl' = Ptr(sz_pool_init(lazy))
          /\ su' = Ptr(sz_pool_init(lazy))
    /\ pc' = "accum"
    /\ UNCHANGED <<alive, nfree, ncalls, sg_arg, hsg_iter, nsg, ret, ref_idx, alt_idx,
                   inf_rid, inf_aid, site, gs, nreads, nsite, out, ub, mem>>
    /\ UNCHANGED <<snpVars, fnVars>>

PrepareUmi == PrepareUmiIn(BOOLEAN)

\* record_observation with a UMI tag on the csp_plp_t q: the counts, then
\* the group of the tag is looked up or made (a string from the string
\* pool that receives a copy of the tag, a list from the list pool), and a
\* unit from the unit pool is appended to the list.  x is [hsg, pu, pl, su,
\* mem]; the result is [q, pu, pl, su, mem].
record_observation_umi(q, x, tag, o) ==
    LET q1    == record_observation(q, o[1], o[2])
        h     == Deref(q1.hug)
        k     == csp_map_ug_get(h, tag)
        found == k < h.nb
        gstr  == sz_pool_get("ps", Deref(x.su))
        sid   == x.mem.nstr + 1
        m1    == Observe([x EXCEPT !.mem = Release(@, gstr.rel)]).mem
        put   == csp_map_ug_put(h, tag)
        glst  == sz_pool_get("ul", Deref(x.pl))
        fresh == glst.i >= Deref(x.pl).n
        m2    == [m1 EXCEPT !.nstr = sid, !.sfree = Append(@, 0),
                            !.apool = IF fresh THEN Append(@, 0) ELSE @,
                            !.amap = IF fresh THEN Append(@, 0) ELSE @]
        h1    == IF found THEN h
                 ELSE [put.h EXCEPT !.vals[put.k] = [sid |-> sid, ul |-> glst.i]]
        k1    == IF found THEN k ELSE put.k
        gunit == sz_pool_get("uu", Deref(x.pu))
        pl1   == IF found THEN Deref(x.pl) ELSE glst.p
    IN  [q   |-> [q1 EXCEPT !.hug = Ptr(h1)],
         pu  |-> Ptr([gunit.p EXCEPT !.a[gunit.i] = [base |-> o[1], qual |-> o[2]]]),
         pl  |-> Ptr([pl1 EXCEPT !.a[h1.vals[k1].ul] = csp_list_uu_push(@, gunit.i)]),
         su  |-> IF found THEN x.su ELSE Ptr([gstr.p EXCEPT !.a[gstr.i] = sid]),
         mem |-> IF found THEN x.mem ELSE m2]

\* one read with a UMI tag of sample i at the current site
PushUmi ==
    /\ pc = "accum" /\ nreads < MaxUmiReads
    /\ \E i \in 0..nsg - 1, tag \in UmiTags, o \in UmiObs :
          LET h == Deref(hsg)
              k == Deref(hsg_iter).a[i]
              r == record_observation_umi(Deref(h.vals[k]), Owned, tag, o)
          IN  /\ hsg' = Ptr([h EXCEPT !.vals[k] = Ptr(r.q)])
              /\ pu' = r.pu /\ pl' = r.pl /\ su' = r.su /\ mem' = r.mem
    /\ nreads' = nreads + 1
    /\ UNCHANGED <<alive, nfree, pc, ncalls, sg_arg, hsg_iter, nsg, ret, ref_idx, alt_idx,
                   inf_rid, inf_aid, site, gs, nsite, out, ub>>
    /\ UNCHANGED <<snpVars, fnVars>>

\* the units of the list at place li of the list pool
UnitsOf(li) == [j \in 1..Deref(pl).a[li].n |-> Deref(pu).a[Deref(pl).a[li].a[j]]]

\* the observations that can stand for a UMI group: a base that most of its
\* units have, with the quality of one of the units that have this base
ConsensusSet(u) ==
    LET cnt == [b \in 0..4 |-> Cardinality({j \in DOMAIN u : u[j].base = b})]
        top == {b \in 0..4 : \A c \in 0..4 : cnt[c] <= cnt[b]}
    IN  {<<u[j].base, u[j].qual>> : j \in {i \in DOMAIN u : u[i].base \in top}}

\* the slots of the UMI map h that hold a key
UgSlots(h) == {k \in 0..h.nb - 1 : h.keys[k] # NoKey}

\* a choice of one observation for every UMI group of the csp_plp_t q
ConsensusChoices(q) ==
    LET h == Deref(q.hug)
    IN  {c \in [UgSlots(h) -> UmiObs] : \A k \in UgSlots(h) : c[k] \in ConsensusSet(UnitsOf(h.vals[k].ul))}

RECURSIVE FoldGroups(_, _, _, _, _, _, _)
FoldGroups(q, h, c, k, ref, alt, set) ==
    IF k >= h.nb THEN q
    ELSE FoldGroups(IF h.keys[k] # NoKey THEN FoldObs(q, c[k][1], c[k][2], ref, alt, set) ELSE q,
                    h, c, k + 1, ref, alt, set)

\* finalize(ref_idx, alt_idx) of a sample with UMI groups, the observation
\* c[k] standing for the group in slot k, and the likelihood model
finalize_umi(q, c, ref, alt, set) ==
    LET f == FoldGroups(q, Deref(q.hug), c, 0, ref, alt, set)
        g == qual_matrix_to_geno(f.qmat, f.bc, ref, alt, set.db, f.gl)
    IN  [f EXCEPT !.gl = g.gl, !.ngl = g.n]

\* run, once every read of the site is recorded, with ref A and alt G given
StatUmi ==
    /\ pc = "accum" /\ nsite < MaxSites
    /\ LET h  == Deref(hsg)
           it == Deref(hsg_iter)
       IN  \E cs \in {f \in [0..nsg - 1 -> UNION {ConsensusChoices(SgPlp(h, it, i)) : i \in 0..nsg - 1}] :
                        \A i \in 0..nsg - 1 : f[i] \in ConsensusChoices(SgPlp(h, it, i))} :
              LET h2 == [h EXCEPT !.vals = [k \in DOMAIN h.vals |->
                            IF \E i \in 0..nsg - 1 : it.a[i] = k
                            THEN LET i == CHOOSE j \in 0..nsg - 1 : it.a[j] = k
                                 IN  Ptr(finalize_umi(Deref(h.vals[k]), cs[i], 0, 2, gs))
                            ELSE h.vals[k]]]
              IN  /\ hsg' = Ptr(h2)
                  /\ site' = [bc  |-> [b \in 0..4 |-> SumTo([i \in 0..nsg - 1 |-> SgPlp(h, it, i).bc[b]], nsg)],
                              tc  |-> SumTo([i \in 0..nsg - 1 |-> SgPlp(h2, it, i).tc], nsg),
                              ad  |-> SumTo([i \in 0..nsg - 1 |-> SgPlp(h2, it, i).ad], nsg),
                              dp  |-> SumTo([i \in 0..nsg - 1 |-> SgPlp(h2, it, i).dp], nsg),
                              oth |-> SumTo([i \in 0..nsg - 1 |-> SgPlp(h2, it, i).oth], nsg),
                              nr_ad  |-> Cardinality({i \in 0..nsg - 1 : SgPlp(h2, it, i).ad > 0}),
                              nr_dp  |-> Cardinality({i \in 0..nsg - 1 : SgPlp(h2, it, i).dp > 0}),
                              nr_oth |-> Cardinality({i \in 0..nsg - 1 : SgPlp(h2, it, i).oth > 0}),
                              qvec |-> LastQvec(h, it, nsg - 1, gs, site.qvec)]
    /\ ref_idx' = 0 /\ alt_idx' = 2 /\ inf_rid' = -1 /\ inf_aid' = -1
    /\ pc' = "final"
    /\ nsite' = nsite + 1
    /\ UNCHANGED <<alive, nfree, ncalls, sg_arg, hsg_iter, nsg, ret, gs, nreads, out, ub>>
    /\ UNCHANGED <<snpVars, fnVars, umVars>>

NextUmi ==
    \/ SetSgUmi
    \/ PrepareUmi
    \/ PushUmi
    \/ StatUmi
    \/ Reset
    \/ Destroy

SpecUmi == InitUmi /\ [][NextUmi]_vars

\* the same with the pools that run the reset callback when an element is
\* handed out again
PrepareUmiLazy == PrepareUmiIn({TRUE})

NextUmiLazy ==
    \/ SetSgUmi
    \/ PrepareUmiLazy
    \/ PushUmi
    \/ StatUmi
    \/ Reset
    \/ Destroy

SpecUmiLazy == InitUmi /\ [][NextUmiLazy]_vars

(***************************************************************************)
(* The order in which the reads of a site arrive.  finalize above adds in  *)
(* exact arithmetic, precise to 1/SCALE, which is enough for the counts    *)
(* and the calls.  A double keeps 53 significant bits and every            *)
(* qmat[base][j] += qvec[j] rounds, so that the order of the additions     *)
(* shows in the last bits; finalize_fp keeps this by rounding every sum to *)
(* MantBits significant bits.                                              *)
(***************************************************************************)
MantBits == 8

RECURSIVE Pow2(_)
Pow2(n) == IF n <= 0 THEN 1 ELSE 2 * Pow2(n - 1)

\* the number of bits of x > 0
RECURSIVE BitLen(_)
BitLen(x) == IF x = 0 THEN 0 ELSE 1 + BitLen(x \div 2)

\* x >= 0 rounded to the nearest multiple of u, a tie to the even multiple
RoundEven(x, u) ==
    LET q == x \div u
        r == x % u
    IN  IF 2 * r > u \/ (2 * r = u /\ q % 2 = 1) THEN (q + 1) * u ELSE q * u

\* x rounded to MantBits significant bits
DRound(x) ==
    LET a == IF x < 0 THEN -x ELSE x
        u == Pow2(BitLen(a) - MantBits)
    IN  IF x < 0 THEN -RoundEven(a, u) ELSE RoundEven(a, u)

\* the sum of two doubles
DAdd(a, b) == IF IsFinite(FAdd(a, b)) THEN DRound(a + b) ELSE FAdd(a, b)

\* qmat[base][j] after the error vectors of the qualities quals were added
\* one after the other
RECURSIVE SumRounded(_, _, _, _)
SumRounded(quals, j, set, acc) ==
    IF quals = <<>> THEN acc
    ELSE LET qv == get_qual_vector(Head(quals), set.cap_bq, set.min_bq)
         IN  SumRounded(Tail(quals), j, set, DAdd(acc, IF IsFinite(qv[j]) THEN DRound(qv[j]) ELSE qv[j]))

\* finalize(ref_idx, alt_idx) of one sample without UMI groups, in doubles
finalize_fp(p, ref, alt, set) ==
    LET f  == finalize(p, ref, alt, set)
        qm == [b \in 0..4 |-> [j \in 0..3 |-> SumRounded(p.qu[b], j, set, 0)]]
        g  == qual_matrix_to_geno(qm, f.bc, ref, alt, set.db, p.gl)
    IN  [f EXCEPT !.qmat = qm, !.gl = g.gl, !.ngl = g.n]

MaxOrderReads == 3
OrderObs == {0, 2} \X {10, 20, 30}
OrderSettings == [cap_bq |-> 45, min_bq |-> 0, db |-> 0]

\* the ways to deliver n reads in another order
Orders(n) == {f \in [1..n -> 1..n] : \A i, j \in 1..n : i # j => f[i] # f[j]}

\* the reads r of one sample recorded in turn, then finalized with ref A, alt G
RECURSIVE RecordAll(_, _)
RecordAll(p, r) ==
    IF r = <<>> THEN p ELSE RecordAll(record_observation(p, Head(r)[1], Head(r)[2]), Tail(r))

Accumulate(r) == finalize_fp(RecordAll(csp_plp_init, r), 0, 2, OrderSettings)

InitOrder ==
    /\ AggIdle /\ SnpIdle
    /\ fn_in \in {Ptr([r |-> r, f |-> f]) :
                    r \in UNION {[1..n -> OrderObs] : n \in 1..MaxOrderReads},
                    f \in UNION {Orders(n) : n \in 1..MaxOrderReads}}
    /\ Len(Deref(fn_in).r) = Len(Deref(fn_in).f)
    /\ fn_out = NULL

\* the same reads delivered in the order r[1], r[2], ... and in the order
\* r[f[1]], r[f[2]], ...
ApplyOrder ==
    /\ fn_out = NULL
    /\ LET r == Deref(fn_in).r
           f == Deref(fn_in).f
       IN  fn_out' = Ptr([a |-> Accumulate(r), b |-> Accumulate([i \in 1..Len(r) |-> r[f[i]]])])
    /\ UNCHANGED <<aggVars, snpVars, fn_in>>

SpecOrder == InitOrder /\ [][ApplyOrder]_vars

(***************************************************************************)
(* csp_infer_allele and get_qual_vector applied to an argument.            *)
(***************************************************************************)
\* the read counts of a base
InferCounts == {0, 1, 5, 10}

InitInfer ==
    /\ AggIdle /\ SnpIdle
    /\ fn_in \in {Ptr(bc) : bc \in [0..4 -> InferCounts]}
    /\ fn_out = NULL

ApplyInfer ==
    /\ fn_out = NULL
    /\ fn_out' = Ptr(csp_infer_allele(Deref(fn_in)))
    /\ UNCHANGED <<aggVars, snpVars, fn_in>>

SpecInfer == InitInfer /\ [][ApplyInfer]_vars

\* the qualities, caps and floors get_qual_vector is applied to
MaxQual == 50
MaxFloor == 6
QualCaps == {3, 40, 45}

InitQual ==
    /\ AggIdle /\ SnpIdle
    /\ fn_in \in {Ptr(a) : a \in {x \in [qual : 0..MaxQual, cap_bq : QualCaps, min_bq : 0..MaxFloor] :
                                     x.min_bq <= x.cap_bq}}
    /\ fn_out = NULL

ApplyQual ==
    /\ fn_out = NULL
    /\ LET a == Deref(fn_in)
       IN  fn_out' = Ptr(get_qual_vector(a.qual, a.cap_bq, a.min_bq))
    /\ UNCHANGED <<aggVars, snpVars, fn_in>>

SpecQual == InitQual /\ [][ApplyQual]_vars

(***************************************************************************)
(* qual_matrix_to_geno applied to an argument.  ref_idx and alt_idx are    *)
(* int8_t fields of csp_mplp_t, where a negative number means "not valid". *)
(***************************************************************************)
\* the number of cells of other_idx[4] the first loop stores into
GenoWrites(ref, alt) == Len(OtherIdx(ref, alt))

\* the indexes bc[] and qm[] are read with
GenoReads(ref, alt) ==
    {ref, alt} \cup {OtherIdx(ref, alt)[k] : k \in 1..GenoWrites(ref, alt)}

\* every store stays inside other_idx[4] and every read inside bc[5], qm[5][4]
GenoInBounds(ref, alt) ==
    GenoWrites(ref, alt) <= 4 /\ GenoReads(ref, alt) \subseteq 0..4

GenoIdx == -1..4
GenoQm ==
    {[i \in 0..4 |-> [j \in 0..3 |-> 0]],
     [i \in 0..4 |-> [j \in 0..3 |-> -(1000 * (i + 1) + 100 * (j + 1) + 7)]]}
GenoBc == {[i \in 0..4 |-> i + 1], [i \in 0..4 |-> IF i = 0 THEN 8 ELSE IF i = 2 THEN 2 ELSE 0]}
\* gl[0..4] and *n on entry
GenoGl0 == [i \in 0..4 |-> 11 * (i + 1)]

InitGeno ==
    /\ AggIdle /\ SnpIdle
    /\ fn_in \in {Ptr(a) : a \in [qm : GenoQm, bc : GenoBc, ref_idx : GenoIdx, alt_idx : GenoIdx,
                                  db : {0, 1}, gl : {GenoGl0}, n : {0}]}
    /\ fn_out = NULL

\* what a call that left its arrays can have put into gl and *n
GarbageGeno(a) ==
    {[gl |-> a.gl, n |-> a.n], [gl |-> [i \in 0..4 |-> NAN], n |-> IF a.db # 0 THEN 5 ELSE 3]}

\* qual_matrix_to_geno(qm, bc, ref_idx, alt_idx, db, gl, &n).  A call that
\* stores behind other_idx[3] or reads bc[] and qm[] outside 0..4 ends with
\* arbitrary likelihoods or brings the process down.
ApplyGeno ==
    /\ fn_out = NULL /\ pc = "idle"
    /\ LET a == Deref(fn_in)
       IN  IF GenoInBounds(a.ref_idx, a.alt_idx)
           THEN /\ fn_out' = Ptr(qual_matrix_to_geno(a.qm, a.bc, a.ref_idx, a.alt_idx, a.db, a.gl))
                /\ UNCHANGED <<pc, ub>>
           ELSE \/ /\ fn_out' \in {Ptr(g) : g \in GarbageGeno(a)}
                   /\ ub' = TRUE
                   /\ UNCHANGED pc
                \/ /\ pc' = "crashed"
                   /\ ub' = TRUE
                   /\ UNCHANGED fn_out
    /\ UNCHANGED <<alive, nfree, ncalls, sg_arg, hsg, hsg_iter, nsg, ret, ref_idx, alt_idx,
                   inf_rid, inf_aid, site, gs, nreads, nsite, out>>
    /\ UNCHANGED <<snpVars, fn_in, umVars>>

SpecGeno == InitGeno /\ [][ApplyGeno]_vars

(***************************************************************************)
(* The SNP list loader get_snplist_from_vcf of snp.c.  A record of the     *)
(* variant file is [chr, pos, allele]: chr is the name bcf_hdr_id2name     *)
(* finds for rec->rid (NULLNAME when it finds none), allele the sequence   *)
(* rec->d.allele of rec->n_allele strings.                                 *)
(***************************************************************************)
\* int8_t 0: the base of a csp_snp_t that the file does not give
NoBase == ""

\* the allele arrays of the records
AlleleLists ==
    {<<>>}
    \cup {<<r>> : r \in {"", "A", "AC"}}
    \cup {<<r, a>> : r \in {"", "A", "AC"}, a \in {"", "G", "GT"}}
    \cup {<<"A", "G", "T">>, <<"AC", "G", "T">>, <<"A", "GT", "T">>}

\* the records bcf_read1 can return as record number m
SnpRecs(m) == {[chr |-> c, pos |-> 100 + m, allele |-> al] :
                  c \in {"chr1", NULLNAME}, al \in AlleleLists}

\* a loop body that keeps a record whatever the length of its alt string
SnpOfRecord_anyalt(rec) ==
    LET n_allele == Len(rec.allele)
        ip0 == [chr |-> rec.chr, pos |-> rec.pos, ref |-> NoBase, alt |-> NoBase]
    IN  IF rec.chr = NULLNAME THEN NULL
        ELSE IF n_allele > 0
        THEN LET l0  == Len(rec.allele[1])
                 ip1 == IF l0 = 1 THEN [ip0 EXCEPT !.ref = SubSeq(rec.allele[1], 1, 1)] ELSE ip0
             IN  IF l0 > 1 THEN NULL
                 ELSE IF n_allele = 2
                 THEN LET l1 == Len(rec.allele[2])
                      IN  IF l1 >= 1 THEN Ptr([ip1 EXCEPT !.alt = SubSeq(rec.allele[2], 1, 1)])
                          ELSE Ptr(ip1)
                 ELSE IF n_allele > 2 THEN NULL
                 ELSE Ptr(ip1)
        ELSE Ptr(ip0)

\* the body of the for loop on one record: the csp_snp_t pushed to the list
\* as <<ip>>, or NULL when the record is skipped
SnpOfRecord(rec) ==
    LET n_allele == Len(rec.allele)
        ip0 == [chr |-> rec.chr, pos |-> rec.pos, ref |-> NoBase, alt |-> NoBase]
    IN  IF rec.chr = NULLNAME THEN NULL
        ELSE IF n_allele > 0
        THEN LET l0  == Len(rec.allele[1])
                 ip1 == IF l0 = 1 THEN [ip0 EXCEPT !.ref = SubSeq(rec.allele[1], 1, 1)] ELSE ip0
             IN  IF l0 > 1 THEN NULL
                 ELSE IF n_allele = 2
                 THEN LET l1 == Len(rec.allele[2])
                      IN  IF l1 = 1 THEN Ptr([ip1 EXCEPT !.alt = SubSeq(rec.allele[2], 1, 1)])
                          ELSE IF l1 > 1 THEN NULL
                          ELSE Ptr(ip1)
                 ELSE IF n_allele > 2 THEN NULL
                 ELSE Ptr(ip1)
        ELSE Ptr(ip0)

\* the SNP lists a caller can pass in
SnpLists0 == {<<>>, <<[chr |-> "chr0", pos |-> 5, ref |-> "C", alt |-> "T"]>>}

\* on entry: *ret = -1, n = 0; the file is opened and its header read
InitSnp ==
    /\ AggIdle /\ FnIdle
    /\ snp_pl0 \in SnpLists0
    /\ snp_pl = snp_pl0
    /\ snp_in = <<>>
    /\ snp_n = 0
    /\ snp_ret = -1
    /\ snp_pc = "read"

\* bcf_read1 returns a record (r >= 0): one turn of the loop
SnpRead ==
    /\ snp_pc = "read" /\ Len(snp_in) < MaxRecs
    /\ \E rec \in SnpRecs(Len(snp_in) + 1) :
          LET ip == SnpOfRecord(rec)
          IN  /\ snp_in' = Append(snp_in, rec)
              /\ snp_pl' = IF ip = NULL THEN snp_pl ELSE Append(snp_pl, Deref(ip))
              /\ snp_n' = IF ip = NULL THEN snp_n ELSE snp_n + 1
    /\ UNCHANGED <<snp_pl0, snp_ret, snp_pc>>
    /\ UNCHANGED <<aggVars, fnVars>>

\* bcf_read1 returns -1 at the end of the file: *ret = 0, n is returned
SnpEof ==
    /\ snp_pc = "read"
    /\ snp_ret' = 0
    /\ snp_pc' = "done"
    /\ UNCHANGED <<snp_pl0, snp_in, snp_pl, snp_n>>
    /\ UNCHANGED <<aggVars, fnVars>>

\* bcf_read1 returns an error (r < -1) or csp_snp_init returns NULL: goto
\* fail, *ret stays -1
SnpFail ==
    /\ snp_pc = "read"
    /\ snp_pc' = "fail"
    /\ UNCHANGED <<snp_pl0, snp_in, snp_pl, snp_n, snp_ret>>
    /\ UNCHANGED <<aggVars, fnVars>>

NextSnp ==
    \/ SnpRead
    \/ SnpEof
    \/ SnpFail

SpecSnp == InitSnp /\ [][NextSnp]_vars

(***************************************************************************)
(* Properties.                                                             *)
(***************************************************************************)
\* the csp_plp_t of the k-th configured sample group, k = 1..nsg
Sample(k) == SgPlp(Deref(hsg), Deref(hsg_iter), k - 1)

MtxOps == {"str_mtx", "str_mtx_tmp", "to_mtx"}
VcfOps == {"str_vcf", "to_vcf"}

\* the lines an output of the sparse-matrix formatters is to hold: for
\* k = 1..nsg in turn, a line with k and the value val[k] when val[k] > 0
RECURSIVE WantedMtx(_, _, _)
WantedMtx(val, is_tmp, k) ==
    IF k > nsg THEN (IF is_tmp THEN "\n" ELSE "")
    ELSE (IF val[k] > 0
          THEN (IF is_tmp THEN "" ELSE ToString(out.idx) \o "\t")
               \o ToString(k) \o "\t" \o ToString(val[k]) \o "\n"
          ELSE "")
         \o WantedMtx(val, is_tmp, k + 1)

\* the highest cell of hsg_iter the latest sparse-matrix formatter read
MtxLastRead == IF out.op = "to_mtx" THEN ToMtxLastRead(nsg) ELSE StrMtxLastRead(nsg)

\* C1: each sparse-matrix formatter writes to the AD, DP and OTH output one
\* line with the 1-based index k and the k-th configured sample's ad, dp,
\* oth when that value is > 0 and no line when it is 0, and reads no cell of
\* hsg_iter outside 0..nsg-1.
C1_MtxOneLinePerSample ==
    (pc = "final" /\ out.op \in MtxOps) =>
        /\ out.ad  = WantedMtx([k \in 1..nsg |-> Sample(k).ad], out.tmp[1], 1)
        /\ out.dp  = WantedMtx([k \in 1..nsg |-> Sample(k).dp], out.tmp[2], 1)
        /\ out.oth = WantedMtx([k \in 1..nsg |-> Sample(k).oth], out.tmp[3], 1)
        /\ MtxLastRead <= nsg - 1

\* the end-to-end example: one sample group, ref A and alt G, 8 reads of A
\* and 2 reads of G, every quality 30, finalized and formatted
E2ECase ==
    /\ pc = "final" /\ out.op = "str_vcf" /\ nsg = 1
    /\ ref_idx = 0 /\ alt_idx = 2
    /\ Sample(1).bc = [b \in 0..4 |-> CASE b = 0 -> 8 [] b = 2 -> 2 [] OTHER -> 0]
    /\ \A b \in 0..4 : \A j \in 1..Len(Sample(1).qu[b]) : Sample(1).qu[b][j] = 30
    /\ gs.min_bq <= 30 /\ 30 <= gs.cap_bq

\* the counts of the example
E2ECounts ==
    Sample(1).tc = 10 /\ Sample(1).ad = 2 /\ Sample(1).dp = 10 /\ Sample(1).oth = 0

\* C2 as stated: in the end-to-end example tc=10, ad=2, dp=10, oth=0, the
\* largest of the first 3 likelihoods is the one of index 0 and the VCF
\* field begins with "0/0:2:10:0:".
C2_E2EHomRef ==
    E2ECase =>
        /\ E2ECounts
        /\ FGe(Sample(1).gl[0], Sample(1).gl[1]) /\ FGe(Sample(1).gl[0], Sample(1).gl[2])
        /\ SubSeq(out.vcf, 1, 12) = "\t0/0:2:10:0:"

\* C2 amended: in the end-to-end example tc=10, ad=2, dp=10, oth=0, the
\* largest of the first 3 likelihoods is the one of index 1 (heterozygous)
\* and the VCF field begins with "1/0:2:10:0:".
C2_E2EHet ==
    E2ECase =>
        /\ E2ECounts
        /\ FGt(Sample(1).gl[1], Sample(1).gl[0]) /\ FGt(Sample(1).gl[1], Sample(1).gl[2])
        /\ SubSeq(out.vcf, 1, 12) = "\t1/0:2:10:0:"

C2_Witness == E2ECase /\ Sample(1).ngl = 3

\* the name array s holds the same name in two entries
HasDuplicate(s) ==
    s # NULL /\ \E i, j \in DOMAIN Deref(s) :
                    i # j /\ Deref(s)[i] = Deref(s)[j] /\ Deref(s)[i] # NULLNAME

\* the keys of the sample-group map behind the pointer h
KeysOf(h) == IF h = NULL THEN {} ELSE KhKeys(Deref(h))

\* a step that is a call of csp_mplp_set_sg that returns
SgReturns == ncalls' = ncalls + 1

\* C3: csp_mplp_set_sg returns -1 when the name array holds a name twice,
\* and a call made after a successful call returns -1 and, on an aggregator
\* that is still allocated afterwards, has changed neither nsg nor hsg_iter
\* nor the keys of the map.
C3_SetSgTwiceFails ==
    [][SgReturns =>
          /\ HasDuplicate(sg_arg') => ret' = -1
          /\ (ncalls >= 1 /\ ret = 0) =>
                /\ ret' = -1
                /\ alive' => (nsg' = nsg /\ hsg_iter' = hsg_iter /\ KeysOf(hsg') = KeysOf(hsg))
      ]_vars

\* the lowest index in S at which bc is largest over S
LowestMax(bc, S) ==
    CHOOSE i \in S : /\ \A j \in S : bc[j] <= bc[i]
                     /\ \A j \in S : bc[j] = bc[i] => i <= j

\* C4: csp_infer_allele returns as ref_idx the lowest index among the bases
\* of maximum count and as alt_idx the lowest index among the bases of
\* maximum count of the other four; so ref_idx # alt_idx, both are in 0..4,
\* bc[ref_idx] >= bc[alt_idx] >= bc[i] for every other i, and the counts
\* (10,10,5,0,0) give (0,1).
C4_InferLowestMax ==
    fn_out # NULL =>
        LET bc == Deref(fn_in)
            r  == Deref(fn_out)[1]
            a  == Deref(fn_out)[2]
        IN  /\ r \in 0..4 /\ a \in 0..4 /\ r # a
            /\ r = LowestMax(bc, 0..4)
            /\ a = LowestMax(bc, (0..4) \ {r})
            /\ bc[r] >= bc[a]
            /\ \A i \in (0..4) \ {r, a} : bc[a] >= bc[i]
            /\ (bc = [i \in 0..4 |-> CASE i \in {0, 1} -> 10 [] i = 2 -> 5 [] OTHER -> 0])
                  => (r = 0 /\ a = 1)

C4_Witness ==
    /\ fn_out = Ptr(<<0, 1>>)
    /\ Deref(fn_in) = [i \in 0..4 |-> CASE i \in {0, 1} -> 10 [] i = 2 -> 5 [] OTHER -> 0]

\* a record the loader is to keep: its chromosome name resolves, its ref
\* string has at most 1 character, it has at most 2 alleles and, with 2
\* alleles, its alt string has at most 1 character
Keeps(rec) ==
    /\ rec.chr # NULLNAME
    /\ Len(rec.allele) <= 2
    /\ Len(rec.allele) >= 1 => Len(rec.allele[1]) <= 1
    /\ Len(rec.allele) = 2 => Len(rec.allele[2]) <= 1

\* chromosome and position of the elements of a list or of the records
Sites(l) == [i \in 1..Len(l) |-> <<l[i].chr, l[i].pos>>]

\* C5: at the end of the file the list holds the elements it held on entry
\* followed, in input order, by exactly the records whose chromosome name
\* resolves, whose ref has length <= 1, that have <= 2 alleles and whose alt
\* has length <= 1; the count returned is the number of these and *ret is 0.
C5_SnpListKeepsValid ==
    snp_pc = "done" =>
        /\ Sites(snp_pl) = Sites(snp_pl0) \o Sites(SelectSeq(snp_in, Keeps))
        /\ snp_n = Len(SelectSeq(snp_in, Keeps))
        /\ snp_ret = 0

\* a file of two records read to the end into a list that was not empty:
\* the first record, with an alt of two characters, is skipped and the
\* second is kept
C5_Witness ==
    /\ snp_pc = "done" /\ Len(snp_pl0) = 1 /\ Len(snp_in) = 2
    /\ snp_in[1].chr # NULLNAME /\ snp_in[1].allele = <<"A", "GT">>
    /\ Keeps(snp_in[2])
    /\ Len(snp_pl) = 2 /\ snp_n = 1

\* q clamped to [lo, hi]
Clamp3(q, lo, hi) == IF q < lo THEN lo ELSE IF q > hi THEN hi ELSE q

\* the vector rv is the one of the clamped quality
QualVectorOfClamped(a, rv) ==
    LET q == Clamp3(a.qual, a.min_bq, a.cap_bq)
    IN  /\ rv[3] = -RoundDiv(q * Ln10, 10)
        /\ rv[0] = Log(SCALE - PowTenth(q))

QualVectorOrdered(rv) == FGe(rv[0], rv[1]) /\ FGe(rv[1], rv[2]) /\ FGe(rv[2], rv[3])

\* C10 as stated: get_qual_vector works on the quality clamped to
\* [floor, cap], and for every quality, floor and cap its entries satisfy
\* rv[0] >= rv[1] >= rv[2] >= rv[3].
C10_QualVectorOrdered ==
    fn_out # NULL =>
        /\ QualVectorOfClamped(Deref(fn_in), Deref(fn_out))
        /\ QualVectorOrdered(Deref(fn_out))

\* C10 amended: get_qual_vector works on the quality clamped to
\* [floor, cap], and its entries satisfy rv[0] >= rv[1] >= rv[2] >= rv[3]
\* when the clamped quality is at least 5.
C10_QualVectorOrderedFrom5 ==
    fn_out # NULL =>
        LET a == Deref(fn_in)
        IN  /\ QualVectorOfClamped(a, Deref(fn_out))
            /\ Clamp3(a.qual, a.min_bq, a.cap_bq) >= 5 => QualVectorOrdered(Deref(fn_out))

\* a quality above the cap has been clamped down to a value >= 5
C10_Witness ==
    /\ fn_out # NULL
    /\ Deref(fn_in).qual > Deref(fn_in).cap_bq /\ Deref(fn_in).cap_bq >= 5
    /\ QualVectorOrdered(Deref(fn_out))

\* the pieces of the text s between the separators sep
RECURSIVE SplitFrom(_, _, _, _)
SplitFrom(s, sep, i, start) ==
    IF i > Len(s) THEN <<SubSeq(s, start, Len(s))>>
    ELSE IF SubSeq(s, i, i) = sep
         THEN <<SubSeq(s, start, i - 1)>> \o SplitFrom(s, sep, i + 1, i + 1)
         ELSE SplitFrom(s, sep, i + 1, start)

Split(s, sep) == SplitFrom(s, sep, 1, 1)

\* the text the latest VCF formatter wrote for the k-th sample: what
\* follows the k-th tab
VcfField(k) == Split(out.vcf, "\t")[k + 1]

VcfWritten == pc = "final" /\ out.op \in VcfOps

\* C6: for a sample with tc = 0 the VCF formatters write a tab and the
\* marker ".:.:.:.:.:." and return 0, whatever the other samples hold.
C6_MissingMarker ==
    VcfWritten =>
        /\ Len(Split(out.vcf, "\t")) = nsg + 1
        /\ Split(out.vcf, "\t")[1] = ""
        /\ \A k \in 1..nsg : Sample(k).tc = 0 => VcfField(k) = ".:.:.:.:.:."
        /\ ret = 0

\* of two samples the first has no read and the second has one
C6_Witness ==
    /\ VcfWritten /\ nsg = 2
    /\ Sample(1).tc = 0 /\ Sample(2).tc > 0
    /\ VcfField(1) = ".:.:.:.:.:." /\ VcfField(2) # ".:.:.:.:.:."

\* the index of the largest of gl[0..2], the lowest one when several are
ArgMax3(gl) ==
    CHOOSE m \in 0..2 : /\ \A j \in 0..2 : ~FGt(gl[j], gl[m])
                        /\ \A j \in 0..m - 1 : FGt(gl[m], gl[j])

\* C7: for a sample with tc > 0 the field is GT:AD:DP:OTH:PL:AD_all, GT
\* being "0/0", "1/0" or "1/1" for the index of the largest of gl[0..2]
\* (the lowest index among equal ones), AD, DP, OTH the sample's ad, dp,
\* oth, PL ngl comma-joined entries and AD_all the 5 base counts.
C7_VcfField ==
    VcfWritten =>
        \A k \in 1..nsg : Sample(k).tc > 0 =>
            LET p == Sample(k)
                f == Split(VcfField(k), ":")
            IN  /\ Len(f) = 6
                /\ f[1] = <<"0/0", "1/0", "1/1">>[ArgMax3(p.gl) + 1]
                /\ f[2] = ToString(p.ad) /\ f[3] = ToString(p.dp) /\ f[4] = ToString(p.oth)
                /\ Len(Split(f[5], ",")) = p.ngl
                /\ Split(f[6], ",") = [b \in 1..5 |-> ToString(p.bc[b - 1])]

\* a sample whose three likelihoods are equal is written as "0/0", and a
\* sample whose largest likelihood is the third as "1/1"
C7_Witness ==
    /\ VcfWritten /\ nsg = 2
    /\ Sample(1).tc > 0 /\ Sample(1).gl[0] = Sample(1).gl[1] /\ Sample(1).gl[1] = Sample(1).gl[2]
    /\ Split(VcfField(1), ":")[1] = "0/0"
    /\ Sample(2).tc > 0 /\ ArgMax3(Sample(2).gl) = 2
    /\ Split(VcfField(2), ":")[1] = "1/1"

\* every likelihood of the sample p is there and finite, and so is every
\* entry of the quality vectors folded into them
FiniteLikelihoods(p) ==
    /\ p.ngl \in {3, 5}
    /\ \A i \in 0..p.ngl - 1 : IsFinite(p.gl[i])
    /\ \A b \in 0..4 : \A j \in 1..Len(p.qu[b]) : \A e \in 0..3 :
          IsFinite(get_qual_vector(p.qu[b][j], gs.cap_bq, gs.min_bq)[e])

\* C8 as stated: when the VCF formatter writes the field of a sample with
\* tc > 0, for any quality, floor and cap, ngl is 3 or 5 and every
\* likelihood and every entry of the folded quality vectors is finite.
C8_FiniteLikelihoods ==
    VcfWritten => \A k \in 1..nsg : Sample(k).tc > 0 => FiniteLikelihoods(Sample(k))

\* every quality recorded for the sample p clamps to a quality above 0
ClampedAboveZero(p) ==
    \A b \in 0..4 : \A j \in 1..Len(p.qu[b]) : Clamp3(p.qu[b][j], gs.min_bq, gs.cap_bq) > 0

\* the likelihoods are finite when no quality of the sample clamps to 0:
\* the clamped quality 0 is the one case of C8 in which they are not
FiniteAboveZero ==
    VcfWritten =>
        \A k \in 1..nsg : (Sample(k).tc > 0 /\ ClampedAboveZero(Sample(k)))
                              => FiniteLikelihoods(Sample(k))

\* the latest csp_mplp_set_sg succeeded and the aggregator is in use
SgConfigured ==
    /\ pc \in {"config", "accum", "final"} /\ alive /\ ncalls >= 1
    /\ pc = "config" => ret = 0

\* C9: once csp_mplp_set_sg has succeeded with the names s[0..n-1], nsg = n
\* and hsg_iter[i] is the slot of the map whose key is s[i], distinct i
\* having distinct slots, and this stays so through csp_mplp_reset and the
\* VCF and sparse-matrix formatters.
C9_SgMappingFixed ==
    SgConfigured =>
        LET s  == Deref(sg_arg)
            h  == Deref(hsg)
            it == Deref(hsg_iter)
        IN  /\ nsg = ArrLen(s)
            /\ \A i \in 0..nsg - 1 : it.a[i] \in 0..h.nb - 1 /\ h.keys[it.a[i]] = s[i]
            /\ \A i, j \in 0..nsg - 1 : i # j => it.a[i] # it.a[j]

\* two sample groups, after a site was finalized and the aggregator reset
C9_Witness ==
    /\ SgConfigured /\ pc = "accum" /\ nsite = 1 /\ nsg = 2
    /\ Deref(hsg).keys[Deref(hsg_iter).a[0]] = "e"
    /\ Deref(hsg).keys[Deref(hsg_iter).a[1]] = "a"


(***************************************************************************)
(* The likelihoods of qual_matrix_to_geno.                                 *)
(***************************************************************************)
\* the sum of f over the finite set S of finite numbers
RECURSIVE SumSet(_, _)
SumSet(f, S) == IF S = {} THEN 0 ELSE LET x == CHOOSE y \in S : TRUE IN f[x] + SumSet(f, S \ {x})

GenoApplied == fn_out # NULL

\* C11: for ref_idx # alt_idx, both in 0..4, there are exactly three other
\* bases, other_contrib is the sum of qm[o][3] + log(2/3) * bc[o] over them,
\* gl[0] = other_contrib + qm[ref][0] + qm[alt][3] + log(1/3) * bc[alt],
\* gl[1] = other_contrib + qm[ref][2] + qm[alt][2],
\* gl[2] = other_contrib + qm[ref][3] + qm[alt][0] + log(1/3) * bc[ref];
\* with doublets gl[3] = other_contrib + qm[ref][1] + log(1/4) * bc[alt],
\* gl[4] = other_contrib + qm[alt][1] + log(1/4) * bc[ref] and n = 5,
\* without them n = 3 and gl[3], gl[4] keep what they held on entry.
C11_GenoFormula ==
    GenoApplied =>
        LET a   == Deref(fn_in)
            r   == Deref(fn_out)
            ref == a.ref_idx
            alt == a.alt_idx
            O   == (0..4) \ {ref, alt}
            oc  == SumSet([o \in 0..4 |-> a.qm[o][3] + Ln2_3 * a.bc[o]], O)
        IN  (ref \in 0..4 /\ alt \in 0..4 /\ ref # alt) =>
                /\ Cardinality(O) = 3
                /\ r.gl[0] = oc + a.qm[ref][0] + a.qm[alt][3] + Ln1_3 * a.bc[alt]
                /\ r.gl[1] = oc + a.qm[ref][2] + a.qm[alt][2]
                /\ r.gl[2] = oc + a.qm[ref][3] + a.qm[alt][0] + Ln1_3 * a.bc[ref]
                /\ IF a.db # 0
                   THEN /\ r.gl[3] = oc + a.qm[ref][1] + Ln1_4 * a.bc[alt]
                        /\ r.gl[4] = oc + a.qm[alt][1] + Ln1_4 * a.bc[ref]
                        /\ r.n = 5
                   ELSE /\ r.gl[3] = a.gl[3] /\ r.gl[4] = a.gl[4]
                        /\ r.n = 3

\* doublet likelihoods of ref A, alt G over a matrix with distinct cells
C11_Witness ==
    /\ GenoApplied
    /\ Deref(fn_in).ref_idx = 0 /\ Deref(fn_in).alt_idx = 2 /\ Deref(fn_in).db = 1
    /\ Deref(fn_in).qm[1][3] # 0
    /\ Deref(fn_out).n = 5

\* C19: whatever ref_idx and alt_idx the aggregator holds (0..4 or a
\* negative number, ref_idx = alt_idx included), a call of
\* qual_matrix_to_geno stores into at most 4 cells of other_idx and reads
\* bc and qm only at 0..4.
C19_GenoInBounds ==
    (GenoApplied \/ pc = "crashed") =>
        /\ GenoWrites(Deref(fn_in).ref_idx, Deref(fn_in).alt_idx) <= 4
        /\ GenoReads(Deref(fn_in).ref_idx, Deref(fn_in).alt_idx) \subseteq 0..4

\* with ref_idx = alt_idx in 0..4 the four other bases still fit other_idx
GenoEqualInBounds ==
    (GenoApplied /\ Deref(fn_in).ref_idx = Deref(fn_in).alt_idx /\ Deref(fn_in).ref_idx >= 0) => ~ub


(***************************************************************************)
(* Who owns the aggregator after csp_mplp_set_sg failed.                   *)
(***************************************************************************)
\* a step that is a call of csp_mplp_destroy
DestroyReturns == pc # "done" /\ pc' = "done"

\* C18: whenever csp_mplp_set_sg returns -1 the aggregator is still
\* allocated, and the one csp_mplp_destroy the caller makes afterwards
\* releases it for the first and only time.
C18_FailedSetSgKeepsOwner ==
    [][/\ (SgReturns /\ ret' = -1) => alive'
       /\ DestroyReturns => (alive /\ nfree' = 1)
      ]_vars


(***************************************************************************)
(* The two layouts of the sparse-matrix outputs.                           *)
(***************************************************************************)
Digits == {"0", "1", "2", "3", "4", "5", "6", "7", "8", "9"}
IsNumber(t) == Len(t) >= 1 /\ \A i \in 1..Len(t) : SubSeq(t, i, i) \in Digits

\* t holds lines "sample TAB value" and then one empty line
TmpLayout(t) ==
    LET ln == Split(t, "\n")
        n  == Len(ln)
    IN  /\ n >= 2 /\ ln[n] = "" /\ ln[n - 1] = ""
        /\ \A k \in 1..n - 2 :
              LET f == Split(ln[k], "\t")
              IN  Len(f) = 2 /\ IsNumber(f[1]) /\ IsNumber(f[2])

\* t holds lines "idx TAB sample TAB value" and no empty line
FinalLayout(t, idx) ==
    LET ln == Split(t, "\n")
        n  == Len(ln)
    IN  /\ ln[n] = ""
        /\ \A k \in 1..n - 1 :
              LET f == Split(ln[k], "\t")
              IN  Len(f) = 3 /\ f[1] = ToString(idx) /\ IsNumber(f[2]) /\ IsNumber(f[3])

MtxWritten == pc = "final" /\ out.op \in MtxOps

\* C14: csp_mplp_str_mtx_tmp, and csp_mplp_to_mtx on an output whose
\* is_tmp is set, write lines "sample_index TAB value" without the site
\* index and end each of the AD, DP and OTH outputs of the site with exactly
\* one empty line, also when no sample has a value > 0; in the final layout
\* every line starts with idx and no empty line is written.
C14_MtxLayouts ==
    MtxWritten =>
        /\ out.op = "str_mtx_tmp" => out.tmp = <<TRUE, TRUE, TRUE>>
        /\ out.op = "str_mtx" => out.tmp = <<FALSE, FALSE, FALSE>>
        /\ IF out.tmp[1] THEN TmpLayout(out.ad) ELSE FinalLayout(out.ad, out.idx)
        /\ IF out.tmp[2] THEN TmpLayout(out.dp) ELSE FinalLayout(out.dp, out.idx)
        /\ IF out.tmp[3] THEN TmpLayout(out.oth) ELSE FinalLayout(out.oth, out.idx)

\* csp_mplp_to_mtx with AD and OTH temporary and DP final, one sample with
\* one alt read: a line and the empty line, a line with idx, the empty line
\* alone
C14_Witness ==
    /\ MtxWritten /\ out.op = "to_mtx" /\ out.tmp = <<TRUE, FALSE, TRUE>>
    /\ out.ad = "1\t1\n\n"
    /\ out.dp = "1\t1\t1\n"
    /\ out.oth = "\n"


(***************************************************************************)
(* csp_mplp_reset and csp_plp_reset: what they clear and what they keep.   *)
(***************************************************************************)
\* the slots of the sample-group map behind hp that hold a csp_plp_t
PlpSlots(hp) ==
    IF hp = NULL THEN {}
    ELSE {k \in 0..Deref(hp).nb - 1 : Deref(hp).keys[k] # NoKey /\ Deref(hp).vals[k] # NULL}

PlpAt(hp, k) == Deref(Deref(hp).vals[k])

\* every count, list and matrix of the csp_plp_t q is cleared
PlpCleared(q) ==
    /\ \A b \in 0..4 : q.bc[b] = 0 /\ q.qu[b] = <<>> /\ \A j \in 0..3 : q.qmat[b][j] = 0
    /\ q.tc = 0 /\ q.ad = 0 /\ q.dp = 0 /\ q.oth = 0
    /\ q.ngl = 0
    /\ q.hug # NULL => UgSlots(Deref(q.hug)) = {}

\* C12: after csp_mplp_reset (which runs csp_plp_reset on every sample) the
\* base counts, tc, ad, dp, oth, nr_ad, nr_dp, nr_oth are 0, the quality
\* lists are empty, qmat is zero, ngl is 0 and every UMI map is empty, while
\* the buckets of the maps, the elements of the pools and the cells of the
\* lists stay allocated; a second reset changes no field.
C12_ResetClears ==
    [][Reset =>
          /\ \A b \in 0..4 : site'.bc[b] = 0
          /\ site'.tc = 0 /\ site'.ad = 0 /\ site'.dp = 0 /\ site'.oth = 0
          /\ site'.nr_ad = 0 /\ site'.nr_dp = 0 /\ site'.nr_oth = 0
          /\ PlpSlots(hsg') = PlpSlots(hsg)
          /\ \A k \in PlpSlots(hsg) :
                /\ PlpCleared(PlpAt(hsg', k))
                /\ PlpAt(hsg, k).hug # NULL =>
                      /\ PlpAt(hsg', k).hug # NULL
                      /\ Deref(PlpAt(hsg', k).hug).nb = Deref(PlpAt(hsg, k).hug).nb
          /\ (pu = NULL) = (pu' = NULL) /\ (pl = NULL) = (pl' = NULL) /\ (su = NULL) = (su' = NULL)
          /\ pu # NULL => Deref(pu').n = Deref(pu).n
          /\ su # NULL => Deref(su').n = Deref(su).n
          /\ pl # NULL =>
                /\ Deref(pl').n = Deref(pl).n
                /\ \A j \in 0..Deref(pl).n - 1 : Deref(pl').a[j].m = Deref(pl).a[j].m
          /\ LET again == csp_mplp_reset([hsg |-> hsg', pu |-> pu', pl |-> pl', su |-> su', mem |-> mem'])
             IN  again.hsg = hsg' /\ again.pu = pu' /\ again.pl = pl' /\ again.su = su'
      ]_vars

\* a finalized site whose two UMI strings and a list of two cells are back
\* in the pools
C12_Witness ==
    /\ pc = "accum" /\ nsite = 1 /\ site = SiteZero
    /\ su # NULL /\ Deref(su).n >= 2 /\ Deref(su).l = 0
    /\ Deref(pl).a[0].m >= 2
    /\ \A k \in PlpSlots(hsg) : PlpCleared(PlpAt(hsg, k))

\* C20: csp_mplp_reset leaves ref_idx, alt_idx, inf_rid, inf_aid, nsg,
\* hsg_iter, the keys of the sample-group map and the csp_plp_t of every
\* sample in place, and csp_plp_reset leaves gl[0..4] as they are.
C20_ResetKeeps ==
    [][Reset =>
          /\ ref_idx' = ref_idx /\ alt_idx' = alt_idx
          /\ inf_rid' = inf_rid /\ inf_aid' = inf_aid
          /\ nsg' = nsg /\ hsg_iter' = hsg_iter
          /\ (hsg = NULL) = (hsg' = NULL)
          /\ hsg # NULL =>
                /\ Deref(hsg').nb = Deref(hsg).nb
                /\ Deref(hsg').keys = Deref(hsg).keys
                /\ \A k \in 0..Deref(hsg).nb - 1 : (Deref(hsg').vals[k] = NULL) = (Deref(hsg).vals[k] = NULL)
          /\ \A k \in PlpSlots(hsg) : PlpAt(hsg', k).gl = PlpAt(hsg, k).gl
      ]_vars

\* after a site with inferred alleles was finalized and the aggregator
\* reset: the likelihoods of the site are still there
C20_Witness ==
    /\ pc = "accum" /\ nsite = 1 /\ site = SiteZero
    /\ ref_idx < 0 /\ inf_rid >= 0 /\ nsg = 2
    /\ \E k \in PlpSlots(hsg) : PlpAt(hsg, k).gl[0] # 0 /\ PlpAt(hsg, k).ngl = 0

(***************************************************************************)
(* The blocks behind the UMI groups: who releases them and when.           *)
(***************************************************************************)
\* the callbacks of the string pool and of the list pool release a string,
\* and the backing array of a list, at most once
PoolReleasesOnce ==
    /\ \A i \in 1..Len(mem.sfree) : mem.sfree[i] <= 1
    /\ \A k \in 1..Len(mem.apool) : mem.apool[k] <= 1

\* the callbacks of the list pool alone
ListPoolReleasesOnce == \A k \in 1..Len(mem.apool) : mem.apool[k] <= 1

\* C16: whatever was accumulated and reset before the one
\* csp_mplp_destroy, the backing array of every UMI list is released
\* exactly once: a list released by csp_map_ug_destroy is not released
\* again by the destroy of the list pool.
C16_ListArraysReleasedOnce ==
    \A k \in 1..Len(mem.apool) :
        /\ mem.apool[k] + mem.amap[k] <= 1
        /\ pc = "done" => mem.apool[k] + mem.amap[k] = 1

\* C17: in csp_mplp_reset and in csp_mplp_destroy every UMI map is cleared,
\* or destroyed, before the string pool releases a string, so that at no
\* moment a key of a UMI map points to a released string.
C17_NoKeyOfReleasedString == ~mem.dangling /\ ~KeyDangling(Owned)

\* two strings, both released, the aggregator destroyed
C17_Witness ==
    /\ pc = "done" /\ mem.nstr >= 2
    /\ \A i \in 1..mem.nstr : mem.sfree[i] >= 1


(***************************************************************************)
(* The order of the reads of a site.                                       *)
(***************************************************************************)
OrderApplied == fn_out # NULL

\* the two deliveries give the same counts
SameCounts(a, b) ==
    a.bc = b.bc /\ a.tc = b.tc /\ a.ad = b.ad /\ a.dp = b.dp /\ a.oth = b.oth

\* the reads of every base arrive in the same relative order in both
\* deliveries
SameOrderPerBase(r, f) ==
    \A base \in 0..4 :
        SelectSeq(r, LAMBDA o : o[1] = base)
            = SelectSeq([i \in 1..Len(r) |-> r[f[i]]], LAMBDA o : o[1] = base)

====
